---- MODULE Spec2Model ----
(***************************************************************************)
(* A model of the yippi client library (src/yippi): the response           *)
(* classification of the synchronous and the asynchronous client, the      *)
(* validation of pool searches, the resolution of a pool's posts, the      *)
(* throttling of _call_api and the life of the session, the construction   *)
(* and mutation of entities, the diff engine of Post, the searches for     *)
(* posts, notes and flags with their query strings and authentication, and *)
(* the actions of a Post on the service.                                   *)
(*                                                                         *)
(* Python values are tagged records, so that values of different Python    *)
(* types can be compared: None, str, int, bool, list and dict.  A Python   *)
(* str is a sequence of tokens (each token a piece of text that the model  *)
(* never splits), so that `x in s`, truthiness and concatenation are       *)
(* computed on the text and not assumed.  A dict is the sequence of its    *)
(* <<key, value>> pairs in insertion order.                                *)
(***************************************************************************)
EXTENDS Integers, Sequences, FiniteSets, TLC

VARIABLES
    transport,   \* the response the transport (session.request) answers with
    syncCall,    \* YippiClient: its _call_api calls (how many, the last request and outcome)
    asyncCall,   \* AsyncYippiClient: the same
    login,       \* AbstractYippi._login: the (username, api_key) pair
    poolSearch,  \* pools(): the client and arguments, how many calls were made, the last outcome
    pool,        \* the Pool whose posts are resolved: id, post_ids, client
    pc,          \* where get_posts / get_posts_async stands
    delegated,   \* get_posts returned the awaitable of get_posts_async
    result,      \* the local `result` of the paging loop: the accumulated Post objects
    current_page,\* the local `current_page`
    requests,    \* the page requests issued by this resolution, in order
    outstanding, \* page requests issued and not yet answered
    server,      \* what the service answers for page 1, 2, ... (the same for every pool object)
    returned,    \* the list get_posts returned: references to the objects of result
    links,       \* the next / previous attributes set on the Post objects
    raised,      \* the exception that ended the resolution (NoOutcome when none)
    lastRun,     \* the finished resolution of the previous pool object
    clients,     \* the client objects: class, whether the client made its session, session closed
    limiter,     \* per client class, the state of the limits decorator of _call_api
    thread,      \* the call that sleeps in sleep_and_retry; whether the last call had to wait
    issued,      \* per client class, the ages in ticks of the requests of the last period
    opResult,    \* the last operation on a client and its outcome
    actor,       \* the client object the last step was made on (NoInstance for the clock)
    heap,        \* the list and dict objects, by address
    json_data,   \* the argument Post(...) is called with
    post,        \* the attributes of the Post object
    construction,\* the outcome of Post(json_data)
    snapshot,    \* the value of the payload when Post(json_data) was called
    edits,       \* how many assignments and in-place changes were made
    tag,         \* Tag(json_data): the payload and the outcome
    diffArgs,    \* the two values given to the diff engine
    diffOut,     \* the outcome of _generate_difference(original, new)
    diffBack,    \* the outcome of _generate_difference(new, original)
    listOut,     \* the list _diff_list(original, new) returned
    search,      \* posts / notes / flags: the arguments, what _call_api was given, the outcome
    postClient,  \* the client argument Post(...) is called with: the post's _client
    postAction   \* favorite / unfavorite / update on the post: the outcome and the dispatches

vvars == <<transport, syncCall, asyncCall>>
pvars == <<login, poolSearch>>
rvars == <<pool, pc, delegated, result, current_page, requests, outstanding,
           server, returned, links, raised, lastRun>>
tvars == <<clients, limiter, thread, issued, opResult, actor>>
evars == <<heap, json_data, post, construction, snapshot, edits, tag>>
dvars == <<diffArgs, diffOut, diffBack, listOut>>
svars == <<search>>
avars == <<postClient, postAction>>
vars == <<vvars, pvars, rvars, tvars, evars, dvars, svars, avars>>

----------------------------------------------------------------------------
(* Python values *)

None == [t |-> "None"]
PyStr(s) == [t |-> "str", v |-> s]
PyInt(i) == [t |-> "int", v |-> i]
PyBool(b) == [t |-> "bool", v |-> b]
PyList(l) == [t |-> "list", v |-> l]
PyDict(d) == [t |-> "dict", v |-> d]

\* bool(v): the truth value Python gives a value.
Truthy(x) ==
    CASE x.t = "None" -> FALSE
      [] x.t = "str" -> x.v # <<>>
      [] x.t = "int" -> x.v # 0
      [] x.t = "bool" -> x.v
      [] x.t = "list" -> x.v # <<>>
      [] x.t = "dict" -> x.v # <<>>

\* a or b
PyOr(a, b) == IF Truthy(a) THEN a ELSE b

\* needle in hay, for two str values: hay holds needle as a contiguous run.
StrIn(needle, hay) ==
    \E i \in 0..(Len(hay.v) - Len(needle.v)) :
        \A j \in 1..Len(needle.v) : hay.v[i + j] = needle.v[j]

\* d.get(key) of a dict
DictGet(d, key) ==
    IF \E i \in 1..Len(d.v) : d.v[i][1] = key
    THEN d.v[CHOOSE i \in 1..Len(d.v) : d.v[i][1] = key][2]
    ELSE None

----------------------------------------------------------------------------
(* Outcomes of a call: a returned value or a raised exception. *)

Return(v) == [k |-> "return", cls |-> "", msg |-> None, json |-> None, value |-> v]
Raise(cls, msg, json) == [k |-> "raise", cls |-> cls, msg |-> msg, json |-> json, value |-> None]
NoOutcome == [k |-> "idle", cls |-> "", msg |-> None, json |-> None, value |-> None]

\* How many calls of one operation a behaviour makes at most.
MaxCalls == 2

----------------------------------------------------------------------------
(* The responses of the transport.  A response has a status code, a reason *)
(* phrase, the value of headers.get("Content-Type") (None when the header  *)
(* is absent), the body text, and what the body decodes to as JSON         *)
(* (Undecodable when the text is not JSON).                                *)

Undecodable == [t |-> "undecodable"]

Statuses == {200, 201, 204, 299, 300, 304, 399, 400, 404, 499, 500, 503}

Reasons == {PyStr(<<"Internal Server Error">>), PyStr(<<"Service Unavailable">>)}

JSON_CT == PyStr(<<"application/json">>)

ContentTypes ==
    { None,
      PyStr(<<>>),
      JSON_CT,
      PyStr(<<"application/json", "; charset=utf-8">>),
      PyStr(<<"text/html", "; charset=utf-8">>) }

NOT_FOUND == PyStr(<<"Not found.">>)

Body(text, json) == [text |-> PyStr(text), json |-> json]

Bodies ==
    { Body(<<"{message:", "no access", "}">>,
           PyDict(<< <<"message", PyStr(<<"no access">>)>> >>)),
      Body(<<"{reason:", "not found", "}">>,
           PyDict(<< <<"reason", PyStr(<<"not found">>)>> >>)),
      Body(<<"{reason:", "Not found.", "}">>,
           PyDict(<< <<"reason", NOT_FOUND>> >>)),
      Body(<<"{message:", "denied", ",reason:", "banned", "}">>,
           PyDict(<< <<"message", PyStr(<<"denied">>)>>, <<"reason", PyStr(<<"banned">>)>> >>)),
      Body(<<"{message:", ",reason:", "banned", "}">>,
           PyDict(<< <<"message", PyStr(<<>>)>>, <<"reason", PyStr(<<"banned">>)>> >>)),
      Body(<<"{success:false}">>,
           PyDict(<< <<"success", PyBool(FALSE)>> >>)),
      Body(<<"{posts:[]}">>,
           PyDict(<< <<"posts", PyList(<<>>)>> >>)),
      Body(<<"[]">>, PyList(<<>>)),
      Body(<<"<html>", "Not found.", "</html>">>, Undecodable),
      Body(<<"<html>", "Bad gateway", "</html>">>, Undecodable),
      Body(<<>>, Undecodable) }

Responses ==
    { [status |-> s, reason |-> rs, ctype |-> ct, text |-> b.text, json |-> b.json] :
        s \in Statuses, rs \in Reasons, ct \in ContentTypes, b \in Bodies }

----------------------------------------------------------------------------
(* YippiClient (src/yippi/YippiSync.py) *)

\* r.json() of requests: decodes the body text whatever the Content-Type header
\* says, and raises JSONDecodeError on a text that is not JSON.
SyncJson(r) ==
    IF r.json = Undecodable
    THEN Raise("JSONDecodeError", None, None)
    ELSE Return(r.json)

\* raise UserError(res.get("message") or res.get("reason"), json=res), the same
\* line in both clients; a body that decodes to something else than an object
\* has no .get.
UserErrorOf(res) ==
    IF res.t = "dict"
    THEN Raise("UserError", PyOr(DictGet(res, "message"), DictGet(res, "reason")), res)
    ELSE Raise("AttributeError", None, None)

\* not r.headers.get("Content-Type") or "application/json" not in r.headers.get("Content-Type"),
\* the same condition in both clients
NotJsonContentType(r) ==
    \/ ~Truthy(r.ctype)
    \/ ~StrIn(JSON_CT, r.ctype)

\* The last check of _verify_response without its look for "Not found.".
SyncContentTypeCheck_NoNotFound(r) ==
    IF r.status # 204 /\ NotJsonContentType(r)
    THEN Raise("UserError", PyStr(<<"Invalid input or server error.">>), None)
    ELSE Return(None)

\* The last check of YippiClient._verify_response, on r.text.
SyncContentTypeCheck(r) ==
    IF r.status # 204 /\ NotJsonContentType(r)
    THEN IF StrIn(NOT_FOUND, r.text)
         THEN Raise("UserError", NOT_FOUND, None)
         ELSE Raise("UserError", PyStr(<<"Invalid input or server error.">>), None)
    ELSE Return(None)

\* _verify_response with `300 <= status <= 500` as its first test.
SyncVerifyResponse_Le500(r) ==
    IF 300 <= r.status /\ r.status <= 500
    THEN LET res == SyncJson(r) IN
         IF res.k = "raise" THEN res
         ELSE IF r.status >= 400 THEN UserErrorOf(res.value)
         ELSE SyncContentTypeCheck(r)
    ELSE IF r.status >= 500
    THEN Raise("APIError", r.reason, None)
    ELSE SyncContentTypeCheck(r)

\* YippiClient._verify_response: Return(None) when it raises nothing.
SyncVerifyResponse(r) ==
    IF 300 <= r.status /\ r.status < 500
    THEN LET res == SyncJson(r) IN
         IF res.k = "raise" THEN res
         ELSE IF r.status >= 400 THEN UserErrorOf(res.value)
         ELSE SyncContentTypeCheck(r)
    ELSE IF r.status >= 500
    THEN Raise("APIError", r.reason, None)
    ELSE SyncContentTypeCheck(r)

\* _call_api that decodes the body of a 204 too.
SyncCallResult_AlwaysJson(r) ==
    LET v == SyncVerifyResponse(r) IN
    IF v.k = "raise" THEN v ELSE SyncJson(r)

\* YippiClient._call_api from the response on: verify, then r.json() unless 204.
SyncCallResult(r) ==
    LET v == SyncVerifyResponse(r) IN
    IF v.k = "raise" THEN v
    ELSE IF ~(r.status = 204) THEN SyncJson(r)
    ELSE Return(None)

----------------------------------------------------------------------------
(* AsyncYippiClient (src/yippi/AsyncYippi.py) *)

\* await r.json() of aiohttp: raises ContentTypeError unless the Content-Type
\* header (taken as "" when absent) holds application/json, gives None for an
\* empty body, and raises JSONDecodeError on a text that is not JSON.
AsyncJson(r) ==
    IF ~StrIn(JSON_CT, IF r.ctype = None THEN PyStr(<<>>) ELSE r.ctype)
    THEN Raise("ContentTypeError", None, None)
    ELSE IF r.text.v = <<>> THEN Return(None)
    ELSE IF r.json = Undecodable THEN Raise("JSONDecodeError", None, None)
    ELSE Return(r.json)

\* The last check of AsyncYippiClient._verify_response, on await r.text().
AsyncContentTypeCheck(r) ==
    IF r.status # 204 /\ NotJsonContentType(r)
    THEN IF StrIn(NOT_FOUND, r.text)
         THEN Raise("UserError", NOT_FOUND, None)
         ELSE Raise("UserError", PyStr(<<"Invalid input or server error.">>), None)
    ELSE Return(None)

\* AsyncYippiClient._verify_response
AsyncVerifyResponse(r) ==
    IF 300 <= r.status /\ r.status < 500
    THEN LET res == AsyncJson(r) IN
         IF res.k = "raise" THEN res
         ELSE IF r.status >= 400 THEN UserErrorOf(res.value)
         ELSE AsyncContentTypeCheck(r)
    ELSE IF r.status >= 500
    THEN Raise("APIError", r.reason, None)
    ELSE AsyncContentTypeCheck(r)

\* AsyncYippiClient._call_api from the response on.
AsyncCallResult(r) ==
    LET v == AsyncVerifyResponse(r) IN
    IF v.k = "raise" THEN v
    ELSE IF ~(r.status = 204) THEN AsyncJson(r)
    ELSE Return(None)

----------------------------------------------------------------------------
(* AbstractYippi (src/yippi/AbstractYippi.py): the search operations.      *)
(* In the text of keys, urls and queries the characters that the code or   *)
(* the encoding treats specially ("_" at the end of a key, "[", "]", ",",  *)
(* " ") are tokens of their own.                                           *)

\* str(v)
StrOf(x) ==
    CASE x.t = "str" -> x
      [] x.t = "int" -> PyStr(<<ToString(x.v)>>)
      [] x.t = "bool" -> PyStr(<<IF x.v THEN "True" ELSE "False">>)
      [] x.t = "None" -> PyStr(<<"None">>)

\* s.lower(), on the tokens str() produces for a bool
Lower(s) ==
    PyStr([i \in 1..Len(s.v) |->
              CASE s.v[i] = "True" -> "true"
                [] s.v[i] = "False" -> "false"
                [] OTHER -> s.v[i]])

\* sep.join(map(str, l)) for a list l
RECURSIVE JoinStr(_, _)
JoinStr(sep, l) ==
    IF l = <<>> THEN <<>>
    ELSE IF Len(l) = 1 THEN StrOf(l[1]).v
    ELSE StrOf(l[1]).v \o <<sep>> \o JoinStr(sep, Tail(l))

\* d[key] = value on a dict held as the sequence of its pairs
DictSet(d, key, value) ==
    IF \E i \in 1..Len(d) : d[i][1] = key
    THEN [i \in 1..Len(d) |-> IF d[i][1] = key THEN <<key, value>> ELSE d[i]]
    ELSE Append(d, <<key, value>>)

VALID_CATEGORY == <<PyStr(<<"series">>), PyStr(<<"collection">>)>>
VALID_ORDER == <<PyStr(<<"name">>), PyStr(<<"created_at">>),
                 PyStr(<<"updated_at">>), PyStr(<<"post_count">>)>>

\* x in t for a tuple t
InTuple(x, t) == \E i \in 1..Len(t) : t[i] = x

\* AbstractYippi._convert_search_query
RECURSIVE ConvertSearchQuery(_)
ConvertSearchQuery(kwargs) ==
    IF kwargs = <<>> THEN <<>>
    ELSE LET n == Len(kwargs)
             k == kwargs[n][1]
             key == IF k[Len(k)] = "_" THEN SubSeq(k, 1, Len(k) - 1) ELSE k
         IN DictSet(ConvertSearchQuery(SubSeq(kwargs, 1, n - 1)),
                    <<"search", "[">> \o key \o <<"]">>, kwargs[n][2])

\* quote_plus of urlencode, token by token
QuotePlus(s) ==
    [i \in 1..Len(s) |->
        CASE s[i] = "[" -> "%5B"
          [] s[i] = "]" -> "%5D"
          [] s[i] = "," -> "%2C"
          [] s[i] = " " -> "+"
          [] s[i] = ":" -> "%3A"
          [] OTHER -> s[i]]

\* urlencode(queries): key=value pairs joined by "&"
RECURSIVE UrlEncode(_)
UrlEncode(queries) ==
    IF queries = <<>> THEN <<>>
    ELSE LET pair == QuotePlus(queries[1][1]) \o <<"=">> \o QuotePlus(StrOf(queries[1][2]).v)
         IN IF Len(queries) = 1 THEN pair
            ELSE pair \o <<"&">> \o UrlEncode(Tail(queries))

\* A filter that drops None only.
TruthyQueries_NotNone(kwargs) == SelectSeq(kwargs, LAMBDA kv : kv[2] # None)

\* the dict _generate_query_keys builds: the kwargs whose value is truthy
RECURSIVE TruthyQueries(_)
TruthyQueries(kwargs) ==
    IF kwargs = <<>> THEN <<>>
    ELSE LET n == Len(kwargs)
             rest == TruthyQueries(SubSeq(kwargs, 1, n - 1))
         IN IF Truthy(kwargs[n][2]) THEN DictSet(rest, kwargs[n][1], kwargs[n][2]) ELSE rest

\* AbstractYippi._generate_query_keys
GenerateQueryKeys(kwargs) == UrlEncode(TruthyQueries(kwargs))

\* A _call_api that builds Basic authentication from _login whatever it holds.
Request_AlwaysAuth(method, url, kwargs) ==
    [method |-> method,
     url |-> url \o <<"?">> \o GenerateQueryKeys(kwargs),
     auth |-> PyList(login)]

\* The request _call_api hands to session.request: Basic authentication unless
\* _login is the empty pair, and the url with "?" and the query string appended.
Request(method, url, kwargs) ==
    [method |-> method,
     url |-> url \o <<"?">> \o GenerateQueryKeys(kwargs),
     auth |-> IF login # <<PyStr(<<>>), PyStr(<<>>)>> THEN PyList(login) ELSE None]

POOLS_URL == <<"https://e621.net/pools.json">>

\* id_ after `if isinstance(id_, list): id_ = ",".join(map(str, id_))`
IdStr(id_) == IF id_.t = "list" THEN PyStr(JoinStr(",", id_.v)) ELSE id_

\* A conversion that passes a flag on only when it is true.
BoolStr_TrueOnly(b) == IF b = PyBool(TRUE) THEN PyStr(<<"true">>) ELSE None

\* is_active_str / is_deleted_str, as passed on: `x_str if x_str else None`
BoolStr(b) ==
    LET b_str == IF b # None THEN Lower(StrOf(b)) ELSE PyStr(<<>>)
    IN IF Truthy(b_str) THEN b_str ELSE None

\* _get_pools without its check of `order`.
PoolsValidation_NoOrderCheck(a) ==
    IF Truthy(a.category) /\ ~InTuple(a.category, VALID_CATEGORY)
    THEN Raise("UserError", PyStr(<<"Invalid category ">> \o a.category.v), None)
    ELSE Return(None)

\* The two checks of _get_pools: Return(None) when neither raises.
PoolsValidation(a) ==
    IF Truthy(a.category) /\ ~InTuple(a.category, VALID_CATEGORY)
    THEN Raise("UserError",
               PyStr(<<"Invalid category ">> \o a.category.v
                       \o <<". Valid categories are ", "('series', 'collection')">>),
               None)
    ELSE IF Truthy(a.order) /\ ~InTuple(a.order, VALID_ORDER)
    THEN Raise("UserError",
               PyStr(<<"Invalid category ">> \o a.order.v
                       \o <<". Valid categories are ",
                            "('name', 'created_at', 'updated_at', 'post_count')">>),
               None)
    ELSE Return(None)

\* The keyword arguments _get_pools passes to _call_api.
PoolsQueries(a) ==
    DictSet(ConvertSearchQuery(<<
                <<(<<"name_matches">>), a.name_matches>>,
                <<(<<"id", "_">>), IdStr(a.id_)>>,
                <<(<<"description_matches">>), a.description_matches>>,
                <<(<<"creator_name">>), a.creator_name>>,
                <<(<<"creator_id">>), a.creator_id>>,
                <<(<<"is_active">>), BoolStr(a.is_active)>>,
                <<(<<"is_deleted">>), BoolStr(a.is_deleted)>>,
                <<(<<"category">>), a.category>>,
                <<(<<"order">>), a.order>> >>),
            <<"limit">>, a.limit)

\* [Pool(p, client=self) for p in response]
PoolsOf(client, res) ==
    IF res.k = "raise" THEN res
    ELSE IF res.value.t = "list"
    THEN Return(PyList([i \in 1..Len(res.value.v) |->
                           [t |-> "Pool", v |-> res.value.v[i], client |-> client]]))
    ELSE IF res.value.t = "dict"
    THEN IF res.value.v = <<>> THEN Return(PyList(<<>>))
         ELSE Raise("AttributeError", None, None)
    ELSE Raise("TypeError", None, None)

----------------------------------------------------------------------------
(* State and actions of the two clients *)

NoLogin == <<PyStr(<<>>), PyStr(<<>>)>>

Credentials == {NoLogin, <<PyStr(<<"user">>), PyStr(<<"key">>)>>,
                <<PyStr(<<>>), PyStr(<<"key2">>)>>}

NoCall == [n |-> 0, req |-> None, out |-> NoOutcome]

Clients == {"sync", "async"}

CategoryInputs == {None, PyStr(<<>>), PyStr(<<"series">>), PyStr(<<"collection">>),
                   PyStr(<<"comic">>)}

OrderInputs == {None, PyStr(<<>>), PyStr(<<"name">>), PyStr(<<"created_at">>),
                PyStr(<<"updated_at">>), PyStr(<<"post_count">>), PyStr(<<"id">>)}

BoolInputs == {None, PyBool(TRUE), PyBool(FALSE)}

PoolArgs ==
    [client : Clients,
     name_matches : {None, PyStr(<<"Critical", " ", "Success">>)},
     id_ : {None, PyList(<<PyInt(7), PyInt(8)>>)},
     description_matches : {None},
     creator_name : {None},
     creator_id : {None},
     is_active : BoolInputs,
     is_deleted : BoolInputs,
     category : CategoryInputs,
     order : OrderInputs,
     limit : {None, PyInt(0), PyInt(2)}]

DefaultPoolArgs ==
    [client |-> "sync", name_matches |-> None, id_ |-> None, description_matches |-> None,
     creator_name |-> None, creator_id |-> None, is_active |-> None, is_deleted |-> None,
     category |-> None, order |-> None, limit |-> None]

\* What the service answers to a pool search in the model: a list, or a 404.
PoolResponses ==
    { r \in Responses :
        /\ r.reason = PyStr(<<"Internal Server Error">>)
        /\ r.ctype = JSON_CT
        /\ \/ r.status = 200 /\ r.json = PyList(<<>>)
           \/ r.status = 404 /\ r.json = PyDict(<< <<"reason", PyStr(<<"not found">>)>> >>) }

\* YippiClient._call_api(method, url, **kwargs): the request goes out, the
\* transport's response is verified and decoded.
SyncCallApi(method, url, kwargs) ==
    syncCall' = [n |-> syncCall.n + 1,
                 req |-> Request(method, url, kwargs),
                 out |-> SyncCallResult(transport)]

\* AsyncYippiClient._call_api(method, url, **kwargs), awaited.
AsyncCallApi(method, url, kwargs) ==
    asyncCall' = [n |-> asyncCall.n + 1,
                  req |-> Request(method, url, kwargs),
                  out |-> AsyncCallResult(transport)]

\* client._call_api("GET", url) called directly on the synchronous client
SyncCall ==
    /\ syncCall.n < MaxCalls
    /\ SyncCallApi("GET", <<"https://e621.net/posts.json">>, <<>>)
    /\ UNCHANGED <<transport, asyncCall, pvars, rvars, tvars, evars, dvars, svars, avars>>

\* await client._call_api("GET", url) on the asynchronous client
AsyncCall ==
    /\ asyncCall.n < MaxCalls
    /\ AsyncCallApi("GET", <<"https://e621.net/posts.json">>, <<>>)
    /\ UNCHANGED <<transport, syncCall, pvars, rvars, tvars, evars, dvars, svars, avars>>

\* AbstractYippi.login
Login ==
    /\ \E c \in Credentials : login' = c
    /\ login' # login
    /\ UNCHANGED <<poolSearch, vvars, rvars, tvars, evars, dvars, svars, avars>>

\* YippiClient.pools / AsyncYippiClient.pools with the arguments poolSearch.args:
\* _get_pools validates and, when it does not raise, dispatches through the
\* client's _call_api; the decoded list becomes Pool objects.
Pools ==
    /\ poolSearch.calls < MaxCalls
    /\ LET a == poolSearch.args
           v == PoolsValidation(a)
       IN IF v.k = "raise"
          THEN /\ poolSearch' = [poolSearch EXCEPT !.calls = @ + 1, !.out = v]
               /\ UNCHANGED <<syncCall, asyncCall>>
          ELSE IF a.client = "sync"
          THEN /\ SyncCallApi("GET", POOLS_URL, PoolsQueries(a))
               /\ poolSearch' = [poolSearch EXCEPT !.calls = @ + 1,
                                                   !.out = PoolsOf(a.client, syncCall'.out)]
               /\ UNCHANGED asyncCall
          ELSE /\ AsyncCallApi("GET", POOLS_URL, PoolsQueries(a))
               /\ poolSearch' = [poolSearch EXCEPT !.calls = @ + 1,
                                                   !.out = PoolsOf(a.client, asyncCall'.out)]
               /\ UNCHANGED syncCall
    /\ UNCHANGED <<transport, login, rvars, tvars, evars, dvars, svars, avars>>

----------------------------------------------------------------------------
(* The searches for posts, notes and flags of the two clients             *)
(* (src/yippi/AbstractYippi.py, YippiSync.py, AsyncYippi.py).              *)

POSTS_URL == <<"https://e621.net/posts.json">>
NOTES_URL == <<"https://e621.net/notes.json">>
FLAGS_URL == <<"https://e621.net/post_flags.json">>

\* tags after `if isinstance(tags, list): tags = " ".join(tags)`
TagsStr(tags) == IF tags.t = "list" THEN PyStr(JoinStr(" ", tags.v)) ELSE tags

\* The keyword arguments _get_posts passes to _call_api.
PostsQueries(a) ==
    << <<(<<"tags">>), TagsStr(a.tags)>>,
       <<(<<"limit">>), a.limit>>,
       <<(<<"page">>), a.page>> >>

\* The keyword arguments _get_notes passes to _call_api.
NotesQueries(a) ==
    DictSet(ConvertSearchQuery(<<
                <<(<<"body_matches">>), a.body_matches>>,
                <<(<<"post_id">>), a.post_id>>,
                <<(<<"post_tags_match">>), TagsStr(a.tags)>>,
                <<(<<"creator_name">>), a.creator_name>>,
                <<(<<"creator_id">>), a.creator_id>>,
                <<(<<"is_active">>), BoolStr(a.is_active)>> >>),
            <<"limit">>, a.limit)

\* The keyword arguments _get_flags(post_id, creator_id, creator_name, limit)
\* passes to _call_api.
FlagsQueries(a) ==
    DictSet(ConvertSearchQuery(<<
                <<(<<"post_id">>), a.post_id>>,
                <<(<<"creator_id">>), a.creator_id>>,
                <<(<<"creator_name">>), a.creator_name>> >>),
            <<"limit">>, a.limit)

\* What flags() hands to _get_flags: post_id, creator_id and creator_name by
\* position; _get_flags takes its default for limit.
FlagsArguments(a) == [a EXCEPT !.limit = None]

\* [Post(p, client=self) for p in response["posts"]]
PostsOfResponse(client, res) ==
    IF res.k = "raise" THEN res
    ELSE IF res.value.t = "dict"
    THEN IF DictGet(res.value, "posts") = None THEN Raise("KeyError", None, None)
         ELSE Return(PyList([i \in 1..Len(DictGet(res.value, "posts").v) |->
                                [t |-> "Post", v |-> DictGet(res.value, "posts").v[i],
                                 client |-> client]]))
    ELSE Raise("TypeError", None, None)

\* [Note(n, client=self) for n in response], and the same for Flag
EntitiesOf(cls, client, res) ==
    IF res.k = "raise" THEN res
    ELSE IF res.value.t = "list"
    THEN Return(PyList([i \in 1..Len(res.value.v) |->
                           [t |-> cls, v |-> res.value.v[i], client |-> client]]))
    ELSE IF res.value.t = "dict"
    THEN IF res.value.v = <<>> THEN Return(PyList(<<>>))
         ELSE Raise("AttributeError", None, None)
    ELSE Raise("TypeError", None, None)

PageInputs == {PyInt(0), PyBool(FALSE), PyInt(3)}
LimitInputs == {None, PyInt(0), PyInt(2)}
TagsInputs == {None, PyStr(<<>>), PyList(<<PyStr(<<"wolf">>), PyStr(<<"male">>)>>)}

SearchArgs ==
    [client : Clients,
     tags : TagsInputs,
     body_matches : {None},
     post_id : {PyInt(5)},
     creator_name : {None},
     creator_id : {None},
     is_active : BoolInputs,
     limit : LimitInputs,
     page : PageInputs]

DefaultSearchArgs ==
    [client |-> "sync", tags |-> None, body_matches |-> None, post_id |-> None,
     creator_name |-> None, creator_id |-> None, is_active |-> None,
     limit |-> None, page |-> None]

NoSearch ==
    [args |-> DefaultSearchArgs, calls |-> 0, op |-> "", queries |-> <<>>,
     req |-> None, out |-> NoOutcome]

\* What the service answers to a search in the model: a list, or the object
\* of a post search.
SearchResponses ==
    { r \in Responses :
        /\ r.reason = PyStr(<<"Internal Server Error">>)
        /\ r.ctype = JSON_CT
        /\ r.status = 200
        /\ r.json \in {PyList(<<>>), PyDict(<< <<"posts", PyList(<<>>)>> >>)} }

\* One search with the arguments search.args: queries are the keyword
\* arguments its _get_... method passes to the client's _call_api, of(res)
\* is what the method makes of the decoded response.
Searched(op, url, queries, of(_)) ==
    /\ search.calls < MaxCalls
    /\ IF search.args.client = "sync"
       THEN /\ SyncCallApi("GET", url, queries)
            /\ search' = [search EXCEPT !.calls = @ + 1, !.op = op,
                                        !.queries = queries,
                                        !.req = syncCall'.req,
                                        !.out = of(syncCall'.out)]
            /\ UNCHANGED asyncCall
       ELSE /\ AsyncCallApi("GET", url, queries)
            /\ search' = [search EXCEPT !.calls = @ + 1, !.op = op,
                                        !.queries = queries,
                                        !.req = asyncCall'.req,
                                        !.out = of(asyncCall'.out)]
            /\ UNCHANGED syncCall
    /\ UNCHANGED <<transport, pvars, rvars, tvars, evars, dvars, avars>>

\* YippiClient.posts / AsyncYippiClient.posts(tags, limit, page)
Posts ==
    Searched("posts", POSTS_URL, PostsQueries(search.args),
             LAMBDA res : PostsOfResponse(search.args.client, res))

\* YippiClient.notes / AsyncYippiClient.notes
Notes ==
    Searched("notes", NOTES_URL, NotesQueries(search.args),
             LAMBDA res : EntitiesOf("Note", search.args.client, res))

\* YippiClient.flags / AsyncYippiClient.flags(post_id, creator_id,
\* creator_name, limit)
Flags ==
    Searched("flags", FLAGS_URL, FlagsQueries(FlagsArguments(search.args)),
             LAMBDA res : EntitiesOf("Flag", search.args.client, res))

----------------------------------------------------------------------------
(* Pool (src/yippi/Classes.py): the resolution of a pool's posts.          *)
(* The Post objects of a resolution are the elements of `result` in the    *)
(* order the pages delivered them; a reference to a Post object is its     *)
(* index in that sequence, and 0 stands for an attribute that was never    *)
(* set.  The service lists a post at most once in a pool, so post_ids      *)
(* holds no id twice.                                                      *)

PostIds == {3, 5, 9}

\* The highest page the model tells from the pages after it: of the pages
\* after MaxPage the model knows only every other one from the next, as
\* MaxPage + 1 and MaxPage + 2, and there the service has nothing left to
\* deliver.
MaxPage == 3

\* current_page += 1
PageAfter(page) ==
    IF page <= MaxPage + 1 THEN page + 1 ELSE MaxPage + 1

\* How many pool objects (built from the same payload) resolve their posts.
MaxRuns == 2

\* The post_ids of a pool payload: each id at most once.
PostIdLists ==
    { l \in UNION {[1..n -> PostIds] : n \in 0..Cardinality(PostIds)} :
        \A i, j \in 1..Len(l) : i # j => l[i] # l[j] }

\* What the service answers to one page of a post search: the ids of the
\* posts on the page, or an error response.
PageAnswers ==
    {[k |-> "posts", ids |-> l] : l \in UNION {[1..n -> PostIds] : n \in 0..2}}
        \cup {[k |-> "error", ids |-> <<>>]}

Unasked == [k |-> "unasked", ids |-> <<>>]

\* Post(p, client=self) for the payloads p of a page
PostsOf(ids) == [i \in 1..Len(ids) |-> [id |-> ids[i]]]

\* A lookup that falls back on the first object when no object has the id.
FirstWithId_OrFirst(arr, post_id) ==
    IF \E j \in 1..Len(arr) : arr[j].id = post_id
    THEN CHOOSE j \in 1..Len(arr) :
            /\ arr[j].id = post_id
            /\ \A h \in 1..(j - 1) : arr[h].id # post_id
    ELSE 1

\* next(p for p in arr if p.id == post_id): the first such object, 0 when the
\* generator is exhausted (StopIteration)
FirstWithId(arr, post_id) ==
    IF \E j \in 1..Len(arr) : arr[j].id = post_id
    THEN CHOOSE j \in 1..Len(arr) :
            /\ arr[j].id = post_id
            /\ \A h \in 1..(j - 1) : arr[h].id # post_id
    ELSE 0

\* _sort_posts that keeps the order of arrival.
SortPosts_Unsorted(post_ids, arr) == [i \in 1..Len(post_ids) |-> i]

\* Pool._sort_posts: one object per entry of post_ids, in that order
SortPosts(post_ids, arr) == [i \in 1..Len(post_ids) |-> FirstWithId(arr, post_ids[i])]

\* Pool._register_linked, after the first k elements of arr: the next and
\* previous attributes of the n objects
RECURSIVE RegisterLinkedUpTo(_, _, _)
RegisterLinkedUpTo(arr, k, n) ==
    IF k <= 1
    THEN [next |-> [o \in 1..n |-> 0], previous |-> [o \in 1..n |-> 0]]
    ELSE LET l == RegisterLinkedUpTo(arr, k - 1, n)
         IN [next |-> [l.next EXCEPT ![arr[k - 1]] = arr[k]],
             previous |-> [l.previous EXCEPT ![arr[k]] = arr[k - 1]]]

\* _register_linked that sets .next and forgets .previous.
RegisterLinked_NextOnly(arr, n) ==
    [next |-> RegisterLinkedUpTo(arr, Len(arr), n).next, previous |-> [o \in 1..n |-> 0]]

\* Pool._register_linked
RegisterLinked(arr, n) == RegisterLinkedUpTo(arr, Len(arr), n)

\* "pool:" + str(self.id)
PoolTag(id) == <<"pool", ":", ToString(id)>>

\* inspect.iscoroutinefunction(self._client.post)
IsCoroutineFunction(client) == client = "async"

\* The loop test with <= for <.
SyncLoopContinues_Le(res, post_ids) == Len(res) <= Len(post_ids)

\* while len(result) < len(self.post_ids), in get_posts
SyncLoopContinues(res, post_ids) == Len(res) < Len(post_ids)

\* The loop test with <= for <.
AsyncLoopContinues_Le(res, post_ids) == Len(res) <= Len(post_ids)

\* while len(result) < len(self.post_ids), in get_posts_async
AsyncLoopContinues(res, post_ids) == Len(res) < Len(post_ids)

\* current_page = 1, in get_posts
SyncFirstPage == 1

\* current_page = 1, in get_posts_async
AsyncFirstPage == 1

PoolIds == {7, 6059}

ClientKinds == {"none", "sync", "async"}

NoLinks == [next |-> <<>>, previous |-> <<>>]

NoRun == [n |-> 0, client |-> "none", pc |-> "idle", ids |-> <<>>,
          next |-> <<>>, previous |-> <<>>]

\* The ids of the returned posts, and per position the id of the post its
\* next / previous attribute refers to (0 when the attribute is not set).
ReturnedIds == [i \in 1..Len(returned) |-> result[returned[i]].id]
IdOrZero(o) == IF o = 0 THEN 0 ELSE result[o].id
ReturnedNext == [i \in 1..Len(returned) |-> IdOrZero(links.next[returned[i]])]
ReturnedPrevious == [i \in 1..Len(returned) |-> IdOrZero(links.previous[returned[i]])]

\* The paging loop from its test on, with `res` accumulated and `page` the page
\* to ask for next: either the search for that page goes out, or the loop is
\* left and the posts are sorted, linked and returned.  `pending` is the number
\* of requests still unanswered; `stop` is the exception that surfaces when
\* _sort_posts exhausts its generator.
LoopFrom(res, page, continues, by, stop, pending) ==
    /\ result' = res
    /\ current_page' = page
    /\ IF continues
       THEN /\ LET request == [tags |-> PoolTag(pool.id), page |-> page,
                                have |-> Len(res), by |-> by]
               IN requests' = IF page > MaxPage
                                     /\ \E i \in 1..Len(requests) : requests[i] = request
                               THEN requests
                               ELSE Append(requests, request)
            /\ outstanding' = pending + 1
            /\ pc' = "waiting"
            /\ UNCHANGED <<returned, links, raised>>
       ELSE LET sorted == SortPosts(pool.post_ids, res)
            IN /\ outstanding' = pending
               /\ UNCHANGED requests
               /\ IF \E i \in 1..Len(sorted) : sorted[i] = 0
                  THEN /\ raised' = Raise(stop, None, None)
                       /\ pc' = "raised"
                       /\ UNCHANGED <<returned, links>>
                  ELSE /\ returned' = sorted
                       /\ links' = RegisterLinked(sorted, Len(res))
                       /\ pc' = "done"
                       /\ UNCHANGED raised

\* Pool.get_posts, up to its first search (or its return).
GetPosts ==
    /\ pc = "idle"
    /\ IF pool.client = "none"
       THEN /\ raised' = Raise("UserError", PyStr(<<"Yippi client isn't initialized.">>), None)
            /\ pc' = "raised"
            /\ UNCHANGED <<delegated, result, current_page, requests, outstanding,
                           returned, links>>
       ELSE IF IsCoroutineFunction(pool.client)
       THEN /\ delegated' = TRUE
            /\ pc' = "awaitable"
            /\ UNCHANGED <<result, current_page, requests, outstanding, returned,
                           links, raised>>
       ELSE /\ LoopFrom(<<>>, SyncFirstPage, SyncLoopContinues(<<>>, pool.post_ids),
                        "get_posts", "StopIteration", 0)
            /\ UNCHANGED delegated
    /\ UNCHANGED <<pool, server, lastRun, vvars, pvars, tvars, evars, dvars, svars, avars>>

\* The awaitable get_posts returned is awaited: Pool.get_posts_async, up to its
\* first search (or its return).  StopIteration leaving a coroutine surfaces as
\* RuntimeError.
AwaitGetPostsAsync ==
    /\ pc = "awaitable"
    /\ LoopFrom(<<>>, AsyncFirstPage, AsyncLoopContinues(<<>>, pool.post_ids),
                "get_posts_async", "RuntimeError", 0)
    /\ UNCHANGED <<pool, delegated, server, lastRun, vvars, pvars, tvars, evars, dvars, svars, avars>>

\* The answer to the outstanding page request: the service answers a page the
\* way it answered it before.
Answer(a) ==
    /\ server[current_page] \in {Unasked, a}
    /\ server' = [server EXCEPT ![current_page] = a]

\* get_posts: the search of a page returns (or raises), result is extended,
\* current_page advanced, and the loop goes on from its test.
SyncReceivePage ==
    /\ pc = "waiting"
    /\ requests[Len(requests)].by = "get_posts"
    /\ \E a \in PageAnswers :
         /\ Answer(a)
         /\ IF a.k = "error"
            THEN /\ raised' = Raise("UserError", PyStr(<<"not found">>), None)
                 /\ pc' = "raised"
                 /\ outstanding' = outstanding - 1
                 /\ UNCHANGED <<result, current_page, requests, returned, links>>
            ELSE LET res == result \o PostsOf(a.ids)
                     continues == SyncLoopContinues(res, pool.post_ids)
                 IN /\ current_page > MaxPage => a.ids = <<>>
                    /\ LoopFrom(res, PageAfter(current_page), continues,
                                "get_posts", "StopIteration", outstanding - 1)
    /\ UNCHANGED <<pool, delegated, lastRun, vvars, pvars, tvars, evars, dvars, svars, avars>>

\* get_posts_async: the awaited search of a page completes.
AsyncReceivePage ==
    /\ pc = "waiting"
    /\ requests[Len(requests)].by = "get_posts_async"
    /\ \E a \in PageAnswers :
         /\ Answer(a)
         /\ IF a.k = "error"
            THEN /\ raised' = Raise("UserError", PyStr(<<"not found">>), None)
                 /\ pc' = "raised"
                 /\ outstanding' = outstanding - 1
                 /\ UNCHANGED <<result, current_page, requests, returned, links>>
            ELSE LET res == result \o PostsOf(a.ids)
                     continues == AsyncLoopContinues(res, pool.post_ids)
                 IN /\ current_page > MaxPage => a.ids = <<>>
                    /\ LoopFrom(res, PageAfter(current_page), continues,
                                "get_posts_async", "RuntimeError", outstanding - 1)
    /\ UNCHANGED <<pool, delegated, lastRun, vvars, pvars, tvars, evars, dvars, svars, avars>>

\* Pool(payload, client=c): another pool object is built from the same payload
\* by a client, after the resolution on the previous one ended.
NewPool ==
    /\ pc \in {"done", "raised"}
    /\ lastRun.n + 1 < MaxRuns
    /\ \E c \in ClientKinds : pool' = [pool EXCEPT !.client = c]
    /\ lastRun' = [n |-> lastRun.n + 1, client |-> pool.client, pc |-> pc,
                   ids |-> ReturnedIds, next |-> ReturnedNext,
                   previous |-> ReturnedPrevious]
    /\ pc' = "idle"
    /\ delegated' = FALSE
    /\ result' = <<>>
    /\ current_page' = 0
    /\ requests' = <<>>
    /\ outstanding' = 0
    /\ returned' = <<>>
    /\ links' = NoLinks
    /\ raised' = NoOutcome
    /\ UNCHANGED <<server, vvars, pvars, tvars, evars, dvars, svars, avars>>

----------------------------------------------------------------------------
(* Throttling and the life of the connection (YippiSync.py, AsyncYippi.py). *)
(* _call_api is decorated, in the class body, with                          *)
(* @sleep_and_retry @limits(calls=2, period=1) of the ratelimit package:    *)
(* limits keeps one counter and the time of its last reset per decorated    *)
(* function, so one per client class; sleep_and_retry catches the           *)
(* RateLimitException of limits, sleeps for the rest of the period and      *)
(* tries again.  Time is counted in ticks, TicksPerSecond of them to the    *)
(* second.  One thread of control makes the calls: a sleeping call blocks   *)
(* it (time.sleep), in the asynchronous client too.                         *)

\* @limits(calls=2, ...)
CALLS == 2
\* @limits(..., period=1), in seconds
PERIOD == 1
\* the resolution of the clock
TicksPerSecond == 2
PeriodTicks == PERIOD * TicksPerSecond

\* the client objects: two, which may be of one class or of both
Instances == {1, 2}
NoInstance == 0

Min(a, b) == IF a <= b THEN a ELSE b
Max(a, b) == IF a >= b THEN a ELSE b

\* RateLimitDecorator.__init__: num_calls = 0, last_reset = clock().
\* elapsed is clock() - last_reset, counted up to the period.
NewLimiter == [num_calls |-> 0, elapsed |-> 0]

\* RateLimitDecorator.__period_remaining
PeriodRemaining(l) == PeriodTicks - l.elapsed

\* The wrapper of limits, up to the call of the wrapped function: a reset
\* when the period has passed, one more call counted, RateLimitException
\* (carrying period_remaining) when the count exceeds calls.
LimitsEnter(l) ==
    LET period_remaining == PeriodRemaining(l)
        l1 == IF period_remaining <= 0 THEN [num_calls |-> 0, elapsed |-> 0] ELSE l
        l2 == [l1 EXCEPT !.num_calls = @ + 1]
    IN [limiter |-> l2,
        raised |-> l2.num_calls > CALLS,
        period_remaining |-> period_remaining]

\* sleep_and_retry left out: the RateLimitException reaches the caller.
SleepAndRetry_Reraise(e) ==
    IF e.raised THEN [k |-> "raise", left |-> 0] ELSE [k |-> "call", left |-> 0]

\* One turn of the loop of sleep_and_retry: the wrapped function is called,
\* or time.sleep(exception.period_remaining) and another turn.
SleepAndRetry(e) ==
    IF e.raised THEN [k |-> "sleep", left |-> e.period_remaining]
                ELSE [k |-> "call", left |-> 0]

\* session.request on a closed aiohttp.ClientSession
SessionClosed == Raise("RuntimeError", PyStr(<<"Session is closed">>), None)

\* The body of _call_api of a client of class cls.
CallApiBody(cls) ==
    IF cls = "sync" THEN SyncCallResult(transport) ELSE AsyncCallResult(transport)

NoOp == [op |-> "", out |-> NoOutcome]
IdleThread == [pc |-> "idle", inst |-> NoInstance, left |-> 0, waited |-> FALSE]

\* One attempt of instance i to enter _call_api through its decorators.
Attempt(i, waited) ==
    LET cls == clients[i].cls
        e == LimitsEnter(limiter[cls])
        s == SleepAndRetry(e)
    IN /\ limiter' = [limiter EXCEPT ![cls] = e.limiter]
       /\ actor' = i
       /\ CASE s.k = "sleep" ->
                 /\ thread' = [pc |-> "sleeping", inst |-> i, left |-> s.left,
                               waited |-> TRUE]
                 /\ UNCHANGED <<issued, opResult>>
            [] s.k = "raise" ->
                 /\ thread' = [IdleThread EXCEPT !.waited = waited]
                 /\ opResult' = [op |-> "call",
                                 out |-> Raise("RateLimitException",
                                               PyStr(<<"too many calls">>), None)]
                 /\ UNCHANGED issued
            [] s.k = "call" ->
                 /\ thread' = [IdleThread EXCEPT !.waited = waited]
                 /\ IF clients[i].closed
                    THEN /\ opResult' = [op |-> "call", out |-> SessionClosed]
                         /\ UNCHANGED issued
                    ELSE /\ opResult' = [op |-> "call", out |-> CallApiBody(cls)]
                         /\ issued' = [issued EXCEPT ![cls] = Append(@, 0)]

\* client._call_api(...) on instance i
CallApi(i) ==
    /\ thread.pc = "idle"
    /\ Attempt(i, FALSE)
    /\ UNCHANGED <<clients, vvars, pvars, rvars, evars, dvars, svars, avars>>

\* time.sleep returned: the loop of sleep_and_retry takes its next turn
Wake ==
    /\ thread.pc = "sleeping"
    /\ thread.left = 0
    /\ Attempt(thread.inst, TRUE)
    /\ UNCHANGED <<clients, vvars, pvars, rvars, evars, dvars, svars, avars>>

\* the ages below one period, one tick older
Aged(ages) ==
    LET older == [k \in 1..Len(ages) |-> ages[k] + 1]
    IN SelectSeq(older, LAMBDA a : a < PeriodTicks)

\* One tick of the clock passes.
Tick ==
    /\ limiter' = [c \in Clients |->
                     [limiter[c] EXCEPT !.elapsed = Min(@ + 1, PeriodTicks)]]
    /\ issued' = [c \in Clients |-> Aged(issued[c])]
    /\ thread' = IF thread.pc = "sleeping"
                 THEN [thread EXCEPT !.left = Max(@ - 1, 0)]
                 ELSE IdleThread
    /\ actor' = NoInstance
    /\ UNCHANGED <<clients, opResult, vvars, pvars, rvars, evars, dvars, svars, avars>>

\* client.close(): AsyncYippiClient closes its session; YippiClient has no
\* such attribute.
CloseOf(c) ==
    IF c.cls = "async"
    THEN [client |-> [c EXCEPT !.closed = TRUE], out |-> Return(None)]
    ELSE [client |-> c,
          out |-> Raise("AttributeError",
                        PyStr(<<"'YippiClient' object has no attribute 'close'">>), None)]

\* client.close() / await client.close() on instance i
Close(i) ==
    /\ thread.pc = "idle"
    /\ clients' = [clients EXCEPT ![i] = CloseOf(clients[i]).client]
    /\ opResult' = [op |-> "close", out |-> CloseOf(clients[i]).out]
    /\ actor' = i
    /\ thread' = IdleThread
    /\ UNCHANGED <<limiter, issued, vvars, pvars, rvars, evars, dvars, svars, avars>>

\* the end of `async with client:` on instance i: __aexit__ awaits close()
AExit(i) ==
    /\ thread.pc = "idle"
    /\ clients[i].cls = "async"
    /\ clients' = [clients EXCEPT ![i] = CloseOf(clients[i]).client]
    /\ opResult' = [op |-> "aexit", out |-> Return(None)]
    /\ actor' = i
    /\ thread' = IdleThread
    /\ UNCHANGED <<limiter, issued, vvars, pvars, rvars, evars, dvars, svars, avars>>

\* __init__ of each client: the session given by the caller, or a new one
\* that the client owns.
NewClients == [Instances -> [cls : Clients, owns : BOOLEAN, closed : {FALSE}]]
DefaultClients == [i \in Instances |-> [cls |-> "sync", owns |-> TRUE, closed |-> FALSE]]

InitThrottle ==
    /\ limiter = [c \in Clients |-> NewLimiter]
    /\ issued = [c \in Clients |-> <<>>]
    /\ thread = IdleThread
    /\ opResult = NoOp
    /\ actor = NoInstance

----------------------------------------------------------------------------
(* Entities (src/yippi/Classes.py, Enums.py).  Lists and dicts are objects *)
(* on a heap, a sequence of objects whose index is the address; a value    *)
(* that is a list or a dict is a reference to its object, so that two      *)
(* names for one object see each other's changes, as in Python.            *)

Ref(a) == [t |-> "ref", a |-> a]
Absent == [t |-> "absent"]
NoEntity == [t |-> "none"]

\* how many assignments and in-place changes a behaviour makes to one entity
MaxEdits == 2

\* The value a reference stands for, references resolved all the way down.
RECURSIVE DeepValue(_, _)
DeepValue(h, v) ==
    IF v.t # "ref" THEN v
    ELSE LET obj == h[v.a]
         IN IF obj.t = "list"
            THEN PyList([i \in 1..Len(obj.v) |-> DeepValue(h, obj.v[i])])
            ELSE PyDict([i \in 1..Len(obj.v) |->
                            <<obj.v[i][1], DeepValue(h, obj.v[i][2])>>])

\* self._original_data = json_data: no copy at all.
DeepCopy_Alias(h, v) == [heap |-> h, value |-> v]

\* copy.deepcopy(v): every list and dict reachable from v is built anew.
RECURSIVE DeepCopy(_, _)
RECURSIVE DeepCopyItems(_, _, _)
DeepCopy(h, v) ==
    IF v.t # "ref" THEN [heap |-> h, value |-> v]
    ELSE LET obj == h[v.a]
             items == DeepCopyItems(h, obj, Len(obj.v))
         IN [heap |-> Append(items.heap, [t |-> obj.t, v |-> items.value]),
             value |-> Ref(Len(items.heap) + 1)]

\* the first n items of the object obj, copied in order
DeepCopyItems(h, obj, n) ==
    IF n = 0 THEN [heap |-> h, value |-> <<>>]
    ELSE LET before == DeepCopyItems(h, obj, n - 1)
             item == obj.v[n]
             c == DeepCopy(before.heap, IF obj.t = "list" THEN item ELSE item[2])
         IN [heap |-> c.heap,
             value |-> Append(before.value,
                              IF obj.t = "list" THEN c.value ELSE <<item[1], c.value>>)]

\* json_data.get(key), json_data a reference to a dict
Get(h, data, key) == DictGet(h[data.a], key)

\* bool(json_data) of the constructor's argument
TruthyData(h, data) ==
    IF data.t = "ref" THEN h[data.a].v # <<>> ELSE Truthy(data)

\* Enums.Rating: NONE = None, SAFE = "s", QUESTIONABLE = "q", EXPLICIT = "e"
RatingValues == {None, PyStr(<<"s">>), PyStr(<<"q">>), PyStr(<<"e">>)}

\* Rating(value) that takes any value for a member.
RatingOf_AnyValue(value) == Return([t |-> "Rating", v |-> value])

\* Rating(value): the member with that value, or ValueError
RatingOf(value) ==
    IF value \in RatingValues
    THEN Return([t |-> "Rating", v |-> value])
    ELSE Raise("ValueError", PyStr(<<"is not a valid Rating">>), None)

\* Classes.TagCategory, an IntEnum
TagCategoryValues == {0, 1, 3, 4, 5, 6, 7, 8}

\* TagCategory(value)
TagCategoryOf(value) ==
    IF value.t = "int" /\ value.v \in TagCategoryValues
    THEN Return([t |-> "TagCategory", v |-> value.v])
    ELSE Raise("ValueError", PyStr(<<"is not a valid TagCategory">>), None)

\* A Post without attributes from a payload: Post(), Post(None), Post({}).
EmptyPost ==
    [_original_data |-> Absent, id |-> Absent, tags |-> Absent, sources |-> Absent,
     description |-> Absent, rating |-> Absent, flags |-> Absent,
     relationships |-> Absent]

\* Post(json_data): _BaseMixin.__init__, then Post.__init__.  The outcome is
\* the new object or the ValueError of Rating(...); the heap holds the copy
\* made for _original_data.
PostInit(h, data) ==
    IF ~TruthyData(h, data)
    THEN [heap |-> h, out |-> Return(EmptyPost)]
    ELSE LET c == DeepCopy(h, data)
             rating == RatingOf(Get(h, data, "rating"))
         IN IF rating.k = "raise"
            THEN [heap |-> c.heap, out |-> rating]
            ELSE [heap |-> c.heap,
                  out |-> Return([_original_data |-> c.value,
                                  id |-> Get(h, data, "id"),
                                  tags |-> Get(h, data, "tags"),
                                  sources |-> Get(h, data, "sources"),
                                  description |-> Get(h, data, "description"),
                                  rating |-> rating.value,
                                  flags |-> Get(h, data, "flags"),
                                  relationships |-> Get(h, data, "relationships")])]

\* Tag(json_data) for a payload of plain values (a dict held by value)
TagInit(data) ==
    IF ~Truthy(data)
    THEN Return([_original_data |-> Absent, name |-> Absent, category |-> Absent])
    ELSE LET category == TagCategoryOf(DictGet(data, "category"))
         IN IF category.k = "raise" THEN category
            ELSE Return([_original_data |-> data,
                         name |-> DictGet(data, "name"),
                         category |-> category.value])

\* The heap json.loads leaves for a post payload: the dict of the post at
\* address 1, with its tags, sources, flags and relationships below it.
\* A rating of Absent leaves the key out.
PostPayload(rating, general, rating_locked) ==
    << PyDict(<< <<"id", PyInt(5)>>, <<"tags", Ref(2)>>, <<"sources", Ref(4)>>,
                 <<"description", PyStr(<<"d">>)>> >>
              \o (IF rating = Absent THEN <<>> ELSE << <<"rating", rating>> >>)
              \o << <<"flags", Ref(5)>>, <<"relationships", Ref(6)>> >>),
       PyDict(<< <<"general", Ref(3)>> >>),
       PyList(general),
       PyList(<< PyStr(<<"https://e621.net">>) >>),
       PyDict(<< <<"rating_locked", PyBool(rating_locked)>>,
                 <<"note_locked", PyBool(FALSE)>> >>),
       PyDict(<< <<"parent_id", None>> >>) >>

RatingInputs == RatingValues \cup {Absent, PyStr(<<"safe">>)}
GeneralInputs == {<<>>, <<PyStr(<<"a">>)>>}
PostPayloads ==
    {PostPayload(r, g, FALSE) : r \in RatingInputs, g \in GeneralInputs}
DefaultPayload == PostPayload(PyStr(<<"s">>), <<>>, FALSE)

TagPayload(category) ==
    PyDict(<< <<"id", PyInt(1)>>, <<"name", PyStr(<<"a">>)>> >>
           \o (IF category = Absent THEN <<>> ELSE << <<"category", category>> >>))
CategoryWireValues ==
    {PyInt(n) : n \in 0..9} \cup {Absent, None, PyStr(<<"1">>)}
TagPayloads == {TagPayload(c) : c \in CategoryWireValues} \cup {None, PyDict(<<>>)}
DefaultTagPayload == TagPayload(PyInt(0))

\* the arguments the constructor of Post is called with
JsonDataInputs == {None, Ref(1)}

\* post = Post(json_data)
NewPost ==
    /\ construction = NoOutcome
    /\ LET p == PostInit(heap, json_data)
       IN /\ heap' = p.heap
          /\ construction' = p.out
          /\ post' = IF p.out.k = "return" THEN p.out.value ELSE NoEntity
          /\ snapshot' = IF TruthyData(heap, json_data)
                         THEN DeepValue(heap, json_data) ELSE Absent
    /\ UNCHANGED <<json_data, edits, tag, vvars, pvars, rvars, tvars, dvars, svars, avars>>

\* tag = Tag(json_data)
NewTag ==
    /\ tag.out = NoOutcome
    /\ tag' = [tag EXCEPT !.out = TagInit(tag.json_data)]
    /\ UNCHANGED <<heap, json_data, post, construction, snapshot, edits,
                   vvars, pvars, rvars, tvars, dvars, svars, avars>>

EditWords == {PyStr(<<"a">>), PyStr(<<"b">>)}

\* post.<field> = value: the attribute is bound to another value; a new list
\* or dict is a new object.
AssignField ==
    /\ post # NoEntity
    /\ edits < MaxEdits
    /\ edits' = edits + 1
    /\ \/ /\ \E d \in {PyStr(<<>>), PyStr(<<"d">>), PyStr(<<"e">>)} :
                post' = [post EXCEPT !.description = d]
          /\ UNCHANGED heap
       \/ /\ \E r \in RatingValues :
                post' = [post EXCEPT !.rating = [t |-> "Rating", v |-> r]]
          /\ UNCHANGED heap
       \/ \E l \in {<<>>, <<PyStr(<<"https://e926.net">>)>>} :
             /\ heap' = Append(heap, PyList(l))
             /\ post' = [post EXCEPT !.sources = Ref(Len(heap) + 1)]
       \/ \E w \in EditWords :
             /\ heap' = heap \o <<PyList(<<w>>),
                                  PyDict(<< <<"general", Ref(Len(heap) + 1)>> >>)>>
             /\ post' = [post EXCEPT !.tags = Ref(Len(heap) + 2)]
       \/ /\ post' = [post EXCEPT !.flags = None, !.relationships = None]
          /\ UNCHANGED heap
    /\ UNCHANGED <<json_data, construction, snapshot, tag,
                   vvars, pvars, rvars, tvars, dvars, svars, avars>>

\* l.append(value) and l.pop() on the list object at address a
ListAppend(h, a, value) == [h EXCEPT ![a].v = Append(@, value)]
ListPop(h, a) == [h EXCEPT ![a].v = SubSeq(@, 1, Len(@) - 1)]
\* d[key] = value on the dict object at address a
SetItem(h, a, key, value) == [h EXCEPT ![a].v = DictSet(@, key, value)]

\* A change made in place to the object a typed field refers to:
\* post.tags["general"].append(w), post.tags["general"].pop(),
\* post.tags["artist"] = [w], post.sources.append(s), post.sources.pop(),
\* post.flags["rating_locked"] = b, post.relationships["parent_id"] = n.
MutateInPlace ==
    /\ post # NoEntity
    /\ edits < MaxEdits
    /\ edits' = edits + 1
    /\ \/ /\ post.tags.t = "ref"
          /\ LET general == DictGet(heap[post.tags.a], "general")
             IN /\ general.t = "ref"
                /\ \/ \E w \in EditWords : heap' = ListAppend(heap, general.a, w)
                   \/ /\ heap[general.a].v # <<>>
                      /\ heap' = ListPop(heap, general.a)
       \/ /\ post.tags.t = "ref"
          /\ \E w \in EditWords :
                heap' = SetItem(Append(heap, PyList(<<w>>)), post.tags.a, "artist",
                                Ref(Len(heap) + 1))
       \/ /\ post.sources.t = "ref"
          /\ \/ heap' = ListAppend(heap, post.sources.a, PyStr(<<"https://e926.net">>))
             \/ /\ heap[post.sources.a].v # <<>>
                /\ heap' = ListPop(heap, post.sources.a)
       \/ /\ post.flags.t = "ref"
          /\ \E b \in BOOLEAN :
                heap' = SetItem(heap, post.flags.a, "rating_locked", PyBool(b))
       \/ /\ post.relationships.t = "ref"
          /\ heap' = SetItem(heap, post.relationships.a, "parent_id", PyInt(3))
    /\ UNCHANGED <<post, json_data, construction, snapshot, tag,
                   vvars, pvars, rvars, tvars, dvars, svars, avars>>

InitEntityIdle ==
    /\ post = NoEntity
    /\ construction = NoOutcome
    /\ snapshot = Absent
    /\ edits = 0

----------------------------------------------------------------------------
(* The diff engine of Post (src/yippi/Classes.py).  The text of a str is   *)
(* the sequence of its tokens; the token " " is whitespace and the token   *)
(* "-" is the dash, every other token is a run of characters that are      *)
(* neither.                                                                *)

\* e in l, for a list held as a sequence
InList(e, l) == \E i \in 1..Len(l) : l[i] = e

\* A true multiset difference in place of _diff_list: each element of
\* `that` cancels one occurrence only.
RECURSIVE DiffList_Multiset(_, _)
DiffList_Multiset(this, that) ==
    IF this = <<>> THEN <<>>
    ELSE IF InList(this[1], that)
    THEN LET i == CHOOSE k \in 1..Len(that) :
                     that[k] = this[1] /\ \A j \in 1..(k - 1) : that[j] # this[1]
         IN DiffList_Multiset(Tail(this),
                              SubSeq(that, 1, i - 1) \o SubSeq(that, i + 1, Len(that)))
    ELSE <<this[1]>> \o DiffList_Multiset(Tail(this), that)

\* _diff_list that keeps what it should drop: the elements found in `that`.
DiffList_Common(this, that) == SelectSeq(this, LAMBDA e : InList(e, that))

\* Post._diff_list(this, that)
RECURSIVE DiffList(_, _)
DiffList(this, that) ==
    IF this = <<>> THEN <<>>
    ELSE IF InList(this[1], that)
    THEN DiffList(Tail(this), that)
    ELSE <<this[1]>> \o DiffList(Tail(this), that)

\* d[key] exists
DictHas(d, key) == \E i \in 1..Len(d.v) : d.v[i][1] = key

\* the lists of a mapping, joined over all its keys
RECURSIVE Flattened(_)
Flattened(pairs) ==
    IF pairs = <<>> THEN <<>> ELSE pairs[1][2].v \o Flattened(Tail(pairs))

\* A flattening of each mapping over all of its own keys, which knows no
\* missing key.
JoinedByOriginalKeys_OwnKeys(original, new, n) ==
    [k |-> "ok", joined_original |-> Flattened(original.v),
     joined_new |-> Flattened(new.v), key |-> ""]

\* The loop of _generate_difference over original.keys(): the two joined
\* lists, or the KeyError of new[k].
RECURSIVE JoinedByOriginalKeys(_, _, _)
JoinedByOriginalKeys(original, new, n) ==
    IF n = 0 THEN [k |-> "ok", joined_original |-> <<>>, joined_new |-> <<>>, key |-> ""]
    ELSE LET before == JoinedByOriginalKeys(original, new, n - 1)
             key == original.v[n][1]
         IN IF before.k # "ok" THEN before
            ELSE IF ~DictHas(new, key)
            THEN [k |-> "KeyError", joined_original |-> <<>>, joined_new |-> <<>>,
                  key |-> key]
            ELSE [k |-> "ok",
                  joined_original |-> before.joined_original \o original.v[n][2].v,
                  joined_new |-> before.joined_new \o DictGet(new, key).v,
                  key |-> ""]

\* s.split() on the text of a str: the runs between whitespace, as str values
RECURSIVE SplitFrom(_, _, _)
SplitFrom(text, i, word) ==
    IF i > Len(text)
    THEN IF word = <<>> THEN <<>> ELSE <<PyStr(word)>>
    ELSE IF text[i] = " "
    THEN (IF word = <<>> THEN <<>> ELSE <<PyStr(word)>>) \o SplitFrom(text, i + 1, <<>>)
    ELSE SplitFrom(text, i + 1, Append(word, text[i]))

Split(s) == SplitFrom(s.v, 1, <<>>)

\* The text as it is, surrounding whitespace kept.
Strip_Kept(text) == text

\* s.strip() on the text of a str
RECURSIVE Strip(_)
Strip(text) ==
    IF text = <<>> THEN <<>>
    ELSE IF text[1] = " " THEN Strip(Tail(text))
    ELSE IF text[Len(text)] = " " THEN Strip(SubSeq(text, 1, Len(text) - 1))
    ELSE text

\* " -" + " -".join(deleted)
RECURSIVE DashJoined(_)
DashJoined(deleted) ==
    IF deleted = <<>> THEN <<>>
    ELSE <<" ", "-">> \o deleted[1].v \o DashJoined(Tail(deleted))

\* The end of _generate_difference, from the two lists of tags on.
DifferenceOfLists(original, new) ==
    LET deleted == DiffList(original, new)
        added == DiffList(new, original)
        output1 == IF added # <<>> THEN JoinStr(" ", added) ELSE <<>>
        output2 == IF deleted # <<>> THEN output1 \o DashJoined(deleted) ELSE output1
    IN Return(PyStr(Strip(output2)))

\* _generate_difference without its type check: two values of different
\* types are answered with the empty difference.
GenerateDifference_Unchecked(original, new) ==
    IF original.t # new.t THEN Return(PyStr(<<>>))
    ELSE IF original.t = "dict"
    THEN LET j == JoinedByOriginalKeys(original, new, Len(original.v))
         IN IF j.k = "KeyError"
            THEN Raise("KeyError", PyStr(<<j.key>>), None)
            ELSE DifferenceOfLists(j.joined_original, j.joined_new)
    ELSE IF original.t = "str"
    THEN DifferenceOfLists(Split(original), Split(new))
    ELSE DifferenceOfLists(original.v, new.v)

\* Post._generate_difference(original, new), for str, list and dict values
GenerateDifference(original, new) ==
    IF original.t # new.t
    THEN Raise("ValueError", PyStr(<<"Original and new must have same type.">>), None)
    ELSE IF original.t = "dict"
    THEN LET j == JoinedByOriginalKeys(original, new, Len(original.v))
         IN IF j.k = "KeyError"
            THEN Raise("KeyError", PyStr(<<j.key>>), None)
            ELSE DifferenceOfLists(j.joined_original, j.joined_new)
    ELSE IF original.t = "str"
    THEN DifferenceOfLists(Split(original), Split(new))
    ELSE DifferenceOfLists(original.v, new.v)

\* the longest list or text, and the longest list under a key, that is compared
DiffMaxLen == 2
DictMaxLen == 1

Words == {PyStr(<<"a">>), PyStr(<<"b">>), PyStr(<<"c">>)}
DictWords == {PyStr(<<"a">>), PyStr(<<"b">>)}

SeqsUpTo(S, n) == UNION {[1..k -> S] : k \in 0..n}

ListInputs == {PyList(l) : l \in SeqsUpTo(Words, DiffMaxLen)}
StrInputs == {PyStr(s) : s \in SeqsUpTo({"a", "b", " "}, DiffMaxLen)}
KeyLists == {<<>>, <<"general">>, <<"artist">>, <<"general", "artist">>,
             <<"artist", "general">>}
DictInputs ==
    UNION {{PyDict([i \in 1..Len(keys) |-> <<keys[i], PyList(vals[i])>>]) :
               vals \in [1..Len(keys) -> SeqsUpTo(DictWords, DictMaxLen)]} :
           keys \in KeyLists}
DiffInputs == ListInputs \cup StrInputs \cup DictInputs

NoList == [t |-> "none"]
NoDiff == [original |-> PyList(<<>>), new |-> PyList(<<>>)]

\* post._generate_difference(original, new)
GenerateDifferenceCall ==
    /\ diffOut = NoOutcome
    /\ diffOut' = GenerateDifference(diffArgs.original, diffArgs.new)
    /\ UNCHANGED <<diffArgs, diffBack, listOut, vvars, pvars, rvars, tvars, evars, svars, avars>>

\* post._generate_difference(new, original): the same pair the other way round
GenerateDifferenceSwapped ==
    /\ diffBack = NoOutcome
    /\ diffBack' = GenerateDifference(diffArgs.new, diffArgs.original)
    /\ UNCHANGED <<diffArgs, diffOut, listOut, vvars, pvars, rvars, tvars, evars, svars, avars>>

\* post._diff_list(this, that) on two lists
DiffListCall ==
    /\ listOut = NoList
    /\ diffArgs.original.t = "list"
    /\ diffArgs.new.t = "list"
    /\ listOut' = PyList(DiffList(diffArgs.original.v, diffArgs.new.v))
    /\ UNCHANGED <<diffArgs, diffOut, diffBack, vvars, pvars, rvars, tvars, evars, svars, avars>>

InitDiffIdle ==
    /\ diffOut = NoOutcome
    /\ diffBack = NoOutcome
    /\ listOut = NoList

----------------------------------------------------------------------------
(* The actions of a Post on the service (src/yippi/Classes.py): favorite,  *)
(* unfavorite and update.  The post's _client is the synchronous client or *)
(* None.  Post.from_url and Post.from_file build their object with Post(), *)
(* as Post(None) does.                                                     *)

POST_URL == <<"https://e621.net/posts/">>
FAVORITES_URL == <<"https://e621.net/favorites">>

TheClient == [t |-> "YippiClient"]
PostClients == {None, TheClient}

\* the payloads a post is built from before it acts: a full one, one
\* without rating, an empty one
ActionPayloads ==
    {PostPayload(PyStr(<<"s">>), <<PyStr(<<"a">>)>>, FALSE),
     PostPayload(Absent, <<>>, FALSE),
     <<PyDict(<<>>)>>}

NoAction == [op |-> "", calls |-> 0, out |-> NoOutcome, data |-> None]

\* self._original_data read and tested: the attribute does not exist on a
\* Post built without a payload
OriginCheck(h, p) ==
    IF p._original_data = Absent
    THEN Raise("AttributeError", PyStr(<<"_original_data">>), None)
    ELSE IF ~TruthyData(h, p._original_data)
    THEN Raise("UserError", PyStr(<<"Post object did not come from Post endpoint.">>), None)
    ELSE Return(None)

\* obj[key] for the value a typed field holds: TypeError on None, KeyError
\* on a dict without the key
Item(h, obj, key) ==
    IF obj.t # "ref" THEN Raise("TypeError", None, None)
    ELSE IF ~DictHas(h[obj.a], key) THEN Raise("KeyError", PyStr(<<key>>), None)
    ELSE Return(DictGet(h[obj.a], key))

\* The first outcome of a sequence of steps that is a raised exception,
\* Return(None) when no step raised.
RECURSIVE FirstRaised(_)
FirstRaised(steps) ==
    IF steps = <<>> THEN Return(None)
    ELSE IF steps[1].k = "raise" THEN steps[1]
    ELSE FirstRaised(Tail(steps))

\* post_data as Post.update builds it from the differences between
\* _original_data and the attributes, when every step succeeded
PostData(h, p, delta_tags, delta_source) ==
    LET original == p._original_data
        old_parent == Item(h, Get(h, original, "relationships"), "parent_id").value
        new_parent == Item(h, p.relationships, "parent_id").value
        old_flags == Get(h, original, "flags")
    IN (IF Truthy(delta_tags)
        THEN << <<"post[tag_string_diff]", delta_tags>> >> ELSE <<>>)
       \o (IF Truthy(delta_source)
           THEN << <<"post[source_diff]", delta_source>> >> ELSE <<>>)
       \o (IF new_parent # old_parent
           THEN << <<"post[parent_id]", new_parent>>,
                   <<"post[old_parent_id]", old_parent>> >> ELSE <<>>)
       \o (IF p.description # Get(h, original, "description")
           THEN << <<"post[description]", p.description>>,
                   <<"post[old_description]", Get(h, original, "description")>> >>
           ELSE <<>>)
       \o (IF p.rating.v # Get(h, original, "rating")
           THEN << <<"post[rating]", p.rating.v>>,
                   <<"post[old_rating]", Get(h, original, "rating")>> >> ELSE <<>>)
       \o (IF Item(h, p.flags, "rating_locked").value
                 # Item(h, old_flags, "rating_locked").value
           THEN << <<"post[is_rating_locked]",
                     Lower(StrOf(Item(h, p.flags, "rating_locked").value))>> >>
           ELSE <<>>)
       \o (IF Item(h, p.flags, "note_locked").value
                 # Item(h, old_flags, "note_locked").value
           THEN << <<"post[is_note_locked]",
                     Lower(StrOf(Item(h, p.flags, "note_locked").value))>> >>
           ELSE <<>>)

\* Post.update(has_notes, reason) up to the dispatch: the exception it
\* raises, or Return(post_data) with the body of the PATCH request.
UpdateData(h, p, client, has_notes, reason) ==
    IF client = None
    THEN Raise("UserError", PyStr(<<"Yippi client isn't initialized.">>), None)
    ELSE IF OriginCheck(h, p).k = "raise" THEN OriginCheck(h, p)
    ELSE LET original == p._original_data
             delta_tags == GenerateDifference(
                               DeepValue(h, Get(h, original, "tags")),
                               DeepValue(h, p.tags))
             delta_source == GenerateDifference(
                                 DeepValue(h, Get(h, original, "sources")),
                                 DeepValue(h, p.sources))
             steps == << delta_tags,
                         delta_source,
                         Item(h, p.relationships, "parent_id"),
                         Item(h, Get(h, original, "relationships"), "parent_id"),
                         Item(h, original, "description"),
                         Item(h, original, "rating"),
                         Item(h, p.flags, "rating_locked"),
                         Item(h, Get(h, original, "flags"), "rating_locked"),
                         Item(h, p.flags, "note_locked"),
                         Item(h, Get(h, original, "flags"), "note_locked") >>
         IN IF FirstRaised(steps).k = "raise" THEN FirstRaised(steps)
            ELSE LET post_data == PostData(h, p, delta_tags.value, delta_source.value)
                 IN IF post_data = <<>>
                    THEN Raise("UserError",
                               PyStr(<<"No changes has been made to the object.">>), None)
                    ELSE Return(PyDict(post_data
                                   \o << <<"post[edit_reason]", PyOr(reason, PyStr(<<>>))>>,
                                         <<"post[has_embedded_notes]",
                                           Lower(StrOf(has_notes))>> >>))

\* An action of the post that raised before its dispatch.
Failed(op, out) ==
    /\ postAction' = [op |-> op, calls |-> postAction.calls + 1, out |-> out,
                      data |-> None]
    /\ UNCHANGED syncCall

\* self._client._call_api(method, url, data=data): AttributeError on a post
\* without client
Dispatched(op, method, url, data) ==
    IF postClient = None
    THEN Failed(op, Raise("AttributeError", PyStr(<<"_call_api">>), None))
    ELSE /\ SyncCallApi(method, url, <<>>)
         /\ postAction' = [op |-> op, calls |-> postAction.calls + 1,
                           out |-> syncCall'.out, data |-> data]

\* post.favorite()
Favorite ==
    /\ post # NoEntity
    /\ postAction.calls < MaxCalls
    /\ IF OriginCheck(heap, post).k = "raise"
       THEN Failed("favorite", OriginCheck(heap, post))
       ELSE Dispatched("favorite", "POST", FAVORITES_URL \o <<".json">>,
                       PyDict(<< <<"post_id", StrOf(post.id)>> >>))
    /\ UNCHANGED <<transport, asyncCall, postClient, pvars, rvars, tvars, evars,
                   dvars, svars>>

\* post.unfavorite()
Unfavorite ==
    /\ post # NoEntity
    /\ postAction.calls < MaxCalls
    /\ IF OriginCheck(heap, post).k = "raise"
       THEN Failed("unfavorite", OriginCheck(heap, post))
       ELSE Dispatched("unfavorite", "DELETE",
                       FAVORITES_URL \o <<"/">> \o StrOf(post.id).v \o <<".json">>, None)
    /\ UNCHANGED <<transport, asyncCall, postClient, pvars, rvars, tvars, evars,
                   dvars, svars>>

\* post.update(has_notes, reason)
Update ==
    /\ post # NoEntity
    /\ postAction.calls < MaxCalls
    /\ \E has_notes \in {PyBool(FALSE)}, reason \in {None, PyStr(<<"fix">>)} :
          LET d == UpdateData(heap, post, postClient, has_notes, reason)
          IN IF d.k = "raise"
             THEN Failed("update", d)
             ELSE Dispatched("update", "PATCH", POST_URL \o StrOf(post.id).v, d.value)
    /\ UNCHANGED <<transport, asyncCall, postClient, pvars, rvars, tvars, evars,
                   dvars, svars>>

----------------------------------------------------------------------------
(* Initial states and specifications *)

InitClients ==
    /\ syncCall = NoCall
    /\ asyncCall = NoCall
    /\ login = NoLogin

InitResolver ==
    /\ pc = "idle"
    /\ delegated = FALSE
    /\ result = <<>>
    /\ current_page = 0
    /\ requests = <<>>
    /\ outstanding = 0
    /\ server = [p \in 0..(MaxPage + 2) |-> Unasked]
    /\ returned = <<>>
    /\ links = NoLinks
    /\ raised = NoOutcome
    /\ lastRun = NoRun

DefaultPool == [id |-> 7, post_ids |-> <<>>, client |-> "none"]

DefaultResponse == CHOOSE r \in PoolResponses : r.status = 200

\* the client objects, the entities and the diff engine at rest
InitThrottleIdle ==
    /\ InitThrottle
    /\ clients = DefaultClients

InitEntityDefault ==
    /\ InitEntityIdle
    /\ heap = DefaultPayload
    /\ json_data = Ref(1)
    /\ tag = [json_data |-> DefaultTagPayload, out |-> NoOutcome]

InitDiffDefault ==
    /\ InitDiffIdle
    /\ diffArgs = NoDiff

\* no search was made and no action on the post
InitSearchIdle == search = NoSearch

InitActionIdle ==
    /\ postClient = None
    /\ postAction = NoAction

InitRest ==
    /\ InitThrottleIdle
    /\ InitEntityDefault
    /\ InitDiffDefault
    /\ InitSearchIdle
    /\ InitActionIdle

\* Response classification: the transport answers with any response.
InitVerify ==
    /\ InitClients
    /\ InitResolver
    /\ InitRest
    /\ transport \in Responses
    /\ poolSearch = [args |-> DefaultPoolArgs, calls |-> 0, out |-> NoOutcome]
    /\ pool = DefaultPool

NextVerify == SyncCall \/ AsyncCall

SpecVerify == InitVerify /\ [][NextVerify]_vars

\* Pool search: any arguments, on either client.
InitPools ==
    /\ InitClients
    /\ InitResolver
    /\ InitRest
    /\ transport \in PoolResponses
    /\ \E a \in PoolArgs : poolSearch = [args |-> a, calls |-> 0, out |-> NoOutcome]
    /\ pool = DefaultPool

NextPools == Pools \/ Login

SpecPools == InitPools /\ [][NextPools]_vars

\* The searches: any arguments on either client, and a pool search with the
\* same client, is_active and limit.
InitSearch ==
    /\ InitClients
    /\ InitResolver
    /\ InitThrottleIdle
    /\ InitEntityDefault
    /\ InitDiffDefault
    /\ InitActionIdle
    /\ transport \in SearchResponses
    /\ \E a \in SearchArgs : search = [NoSearch EXCEPT !.args = a]
    /\ \E d \in BoolInputs :
          poolSearch = [args |-> [DefaultPoolArgs EXCEPT
                                     !.client = search.args.client,
                                     !.is_active = search.args.is_active,
                                     !.is_deleted = d,
                                     !.limit = search.args.limit],
                        calls |-> 0, out |-> NoOutcome]
    /\ pool = DefaultPool

NextSearch == Posts \/ Notes \/ Flags \/ Pools

SpecSearch == InitSearch /\ [][NextSearch]_vars

\* Credentials come and go between the calls of the two clients.
InitAuth ==
    /\ InitClients
    /\ InitResolver
    /\ InitRest
    /\ transport \in SearchResponses
    /\ poolSearch = [args |-> DefaultPoolArgs, calls |-> 0, out |-> NoOutcome]
    /\ pool = DefaultPool

NextAuth == Login \/ SyncCall \/ AsyncCall \/ Pools

SpecAuth == InitAuth /\ [][NextAuth]_vars

\* Pool post resolution: any pool payload, any client, any answers.
InitResolve ==
    /\ InitClients
    /\ InitResolver
    /\ InitRest
    /\ transport = DefaultResponse
    /\ poolSearch = [args |-> DefaultPoolArgs, calls |-> 0, out |-> NoOutcome]
    /\ pool \in [id : PoolIds, post_ids : PostIdLists, client : ClientKinds]

NextResolve ==
    \/ GetPosts
    \/ AwaitGetPostsAsync
    \/ SyncReceivePage
    \/ AsyncReceivePage
    \/ NewPool

SpecResolve == InitResolve /\ [][NextResolve]_vars

\* The service answers every search, and the awaitable is awaited.
FairResolve ==
    /\ SpecResolve
    /\ WF_vars(SyncReceivePage)
    /\ WF_vars(AsyncReceivePage)
    /\ WF_vars(AwaitGetPostsAsync)

\* Throttling and the connections: client objects of either class, each with
\* a session of its own making or one it was given.
InitCalls ==
    /\ InitClients
    /\ InitResolver
    /\ transport = DefaultResponse
    /\ poolSearch = [args |-> DefaultPoolArgs, calls |-> 0, out |-> NoOutcome]
    /\ pool = DefaultPool
    /\ InitThrottle
    /\ clients \in NewClients
    /\ InitEntityDefault
    /\ InitDiffDefault
    /\ InitSearchIdle
    /\ InitActionIdle

NextThrottle ==
    \/ \E i \in Instances : CallApi(i)
    \/ Wake
    \/ Tick
    \/ \E i \in Instances : Close(i)
    \/ \E i \in Instances : AExit(i)

SpecThrottle == InitCalls /\ [][NextThrottle]_vars

\* The clock goes on and time.sleep returns.
FairThrottle == SpecThrottle /\ WF_vars(Tick) /\ WF_vars(Wake)

\* Entities: any post payload and any tag payload.
InitEntity ==
    /\ InitClients
    /\ InitResolver
    /\ transport = DefaultResponse
    /\ poolSearch = [args |-> DefaultPoolArgs, calls |-> 0, out |-> NoOutcome]
    /\ pool = DefaultPool
    /\ InitThrottleIdle
    /\ InitEntityIdle
    /\ InitDiffDefault
    /\ heap \in PostPayloads \cup {<<PyDict(<<>>)>>}
    /\ json_data \in JsonDataInputs
    /\ \E d \in TagPayloads : tag = [json_data |-> d, out |-> NoOutcome]
    /\ InitSearchIdle
    /\ InitActionIdle

NextEntity == NewPost \/ NewTag \/ AssignField \/ MutateInPlace

SpecEntity == InitEntity /\ [][NextEntity]_vars

\* The actions of a post: any payload or none, with and without a client.
InitActions ==
    /\ InitClients
    /\ InitResolver
    /\ transport = DefaultResponse
    /\ poolSearch = [args |-> DefaultPoolArgs, calls |-> 0, out |-> NoOutcome]
    /\ pool = DefaultPool
    /\ InitThrottleIdle
    /\ InitEntityIdle
    /\ InitDiffDefault
    /\ InitSearchIdle
    /\ heap \in ActionPayloads
    /\ json_data \in JsonDataInputs
    /\ tag = [json_data |-> DefaultTagPayload, out |-> NoOutcome]
    /\ postClient \in PostClients
    /\ postAction = NoAction

NextActions ==
    NewPost \/ AssignField \/ MutateInPlace \/ Favorite \/ Unfavorite \/ Update

SpecActions == InitActions /\ [][NextActions]_vars

\* The diff engine: any two values of the three shapes.
InitDiff ==
    /\ InitClients
    /\ InitResolver
    /\ transport = DefaultResponse
    /\ poolSearch = [args |-> DefaultPoolArgs, calls |-> 0, out |-> NoOutcome]
    /\ pool = DefaultPool
    /\ InitThrottleIdle
    /\ InitEntityDefault
    /\ InitDiffIdle
    /\ diffArgs \in [original : DiffInputs, new : DiffInputs]
    /\ InitSearchIdle
    /\ InitActionIdle

NextDiff == GenerateDifferenceCall \/ GenerateDifferenceSwapped \/ DiffListCall

SpecDiff == InitDiff /\ [][NextDiff]_vars

Init ==
    \/ InitVerify \/ InitPools \/ InitResolve \/ InitCalls \/ InitEntity \/ InitDiff
    \/ InitSearch \/ InitAuth \/ InitActions

Next ==
    \/ NextVerify \/ NextPools \/ NextResolve \/ NextThrottle \/ NextEntity \/ NextDiff
    \/ NextSearch \/ NextAuth \/ NextActions

Spec == Init /\ [][Next]_vars

----------------------------------------------------------------------------
(* Pool search validation *)

IsStr(x) == x.t = "str"

Range(f) == {f[i] : i \in DOMAIN f}

ApiCalls == syncCall.n + asyncCall.n

FailedFast ==
    /\ poolSearch.out.k = "raise"
    /\ poolSearch.out.cls = "UserError"
    /\ ApiCalls = 0
    /\ syncCall.req = None
    /\ asyncCall.req = None

\* C1, as stated: every category string outside {series, collection} and every
\* order string outside {name, created_at, updated_at, post_count}, the empty
\* string included, makes pools() fail with UserError without any _call_api;
\* every other call dispatches exactly once.
C1_EveryOtherStringFails ==
    poolSearch.calls > 0 =>
        IF \/ IsStr(poolSearch.args.category)
                /\ poolSearch.args.category \notin Range(VALID_CATEGORY)
           \/ IsStr(poolSearch.args.order)
                /\ poolSearch.args.order \notin Range(VALID_ORDER)
        THEN FailedFast
        ELSE ApiCalls = poolSearch.calls

\* C1, amended: a non-empty category outside {series, collection} or a non-empty
\* order outside {name, created_at, updated_at, post_count} makes pools() fail
\* with UserError without any _call_api; in every other case (each of the two
\* is None, the empty string or a member of its enumeration) every call
\* dispatches exactly once, and an empty category or order is not sent.
C1_NonEmptyOtherStringFails ==
    poolSearch.calls > 0 =>
        LET a == poolSearch.args
            sent == IF a.client = "sync" THEN syncCall.req ELSE asyncCall.req
        IN IF \/ IsStr(a.category) /\ a.category.v # <<>>
                    /\ a.category \notin Range(VALID_CATEGORY)
              \/ IsStr(a.order) /\ a.order.v # <<>>
                    /\ a.order \notin Range(VALID_ORDER)
           THEN FailedFast
           ELSE /\ ApiCalls = poolSearch.calls
                /\ sent # None
                /\ a.category \in {None, PyStr(<<>>)} => "category" \notin Range(sent.url)
                /\ a.order \in {None, PyStr(<<>>)} => "order" \notin Range(sent.url)
                /\ a.category \in Range(VALID_CATEGORY) => "category" \in Range(sent.url)
                /\ a.order \in Range(VALID_ORDER) => "order" \in Range(sent.url)

\* An invalid order with a valid category has failed fast.
C1_Witness ==
    /\ poolSearch.calls > 0
    /\ poolSearch.args.category = PyStr(<<"series">>)
    /\ poolSearch.args.order = PyStr(<<"id">>)
    /\ FailedFast

----------------------------------------------------------------------------
(* Response classification *)

Called(call) == call.n > 0

\* C2: every response with a status in 400..499 surfaces from _call_api as
\* UserError carrying the body's "message", else its "reason", with the decoded
\* body as the error's json, whatever the content type.
C2_Every4xxIsUserError ==
    \A call \in {syncCall, asyncCall} :
        (Called(call) /\ transport.status \in 400..499) =>
            /\ call.out.k = "raise"
            /\ call.out.cls = "UserError"
            /\ call.out.json = transport.json
            /\ transport.json.t = "dict"
            /\ call.out.msg = PyOr(DictGet(transport.json, "message"),
                                   DictGet(transport.json, "reason"))

\* C3: every response with a status of 500 or above surfaces as APIError
\* carrying the reason phrase, whatever its content type and body.
C3_5xxIsAPIError ==
    \A call \in {syncCall, asyncCall} :
        (Called(call) /\ transport.status >= 500) =>
            call.out = Raise("APIError", transport.reason, None)

\* A 500 whose body is a JSON object with a message, sent as JSON, was
\* classified by the synchronous client.
C3_Witness ==
    /\ Called(syncCall)
    /\ transport.status = 500
    /\ transport.ctype = JSON_CT
    /\ transport.json.t = "dict"
    /\ syncCall.out.cls = "APIError"

\* C4: a 204 makes _call_api return None whatever the Content-Type header and
\* the body are: nothing is raised, and a body that cannot be decoded shows
\* that it is never decoded.
C4_204ReturnsNone ==
    \A call \in {syncCall, asyncCall} :
        (Called(call) /\ transport.status = 204) => call.out = Return(None)

\* A 204 without Content-Type and with a body that is no JSON went through
\* both clients.
C4_Witness ==
    /\ Called(syncCall)
    /\ Called(asyncCall)
    /\ transport.status = 204
    /\ transport.ctype = None
    /\ transport.json = Undecodable
    /\ transport.text.v # <<>>

IsJsonContentType(ct) == IsStr(ct) /\ "application/json" \in Range(ct.v)

C6_SameClassification ==
    (Called(syncCall) /\ Called(asyncCall)) => syncCall.out = asyncCall.out

----------------------------------------------------------------------------
(* Pool post resolution *)

ResultIds == [j \in 1..Len(result) |-> result[j].id]

\* The paging loop was left and the sort ran (it returned, or its generator
\* was exhausted).
Sorted == pc = "done" \/ (pc = "raised" /\ raised.cls \in {"StopIteration", "RuntimeError"})

\* C7: when the pages together delivered every post of post_ids, in any order
\* and over any number of pages, get_posts returns len(post_ids) posts and the
\* i-th has the id post_ids[i].
C7_ReturnedInPostIdsOrder ==
    (Sorted /\ Range(pool.post_ids) \subseteq Range(ResultIds)) =>
        /\ pc = "done"
        /\ Len(returned) = Len(pool.post_ids)
        /\ \A i \in 1..Len(returned) :
              /\ returned[i] \in 1..Len(result)
              /\ result[returned[i]].id = pool.post_ids[i]

\* Pool [5, 3, 9] was resolved from two pages that delivered the posts in
\* another order.
C7_Witness ==
    /\ pc = "done"
    /\ pool.post_ids = <<5, 3, 9>>
    /\ Len(requests) = 2
    /\ ResultIds = <<9, 5, 3>>
    /\ ReturnedIds = <<5, 3, 9>>

RECURSIVE Delivered(_)
Delivered(n) ==
    IF n <= 0 THEN 0 ELSE Delivered(n - 1) + Len(server[n].ids)

\* C9: pages are asked for in the order 1, 2, 3, ... with the tag pool:<id>;
\* page N+1 is asked for only after the posts of pages 1..N were received and
\* added, and only while fewer than len(post_ids) posts are accumulated (never
\* for an empty post_ids); at most one request is outstanding.
C9_SequentialPaging ==
    /\ \A i \in 1..Len(requests) :
          /\ requests[i].page = i
          /\ requests[i].tags = <<"pool", ":", ToString(pool.id)>>
          /\ \A p \in 1..(i - 1) : server[p].k = "posts"
          /\ requests[i].have = Delivered(i - 1)
          /\ requests[i].have < Len(pool.post_ids)
    /\ outstanding \in {0, 1}
    /\ outstanding = 1 <=> pc = "waiting"
    /\ pc = "waiting" => /\ Len(result) < Len(pool.post_ids)
                         /\ Len(result) = Delivered(Len(requests) - 1)
    /\ pool.post_ids = <<>> => requests = <<>>
    /\ pc = "done" => Len(result) >= Len(pool.post_ids)

\* A third page was asked for.
C9_Witness ==
    /\ Len(requests) = 3
    /\ pc = "waiting"
    /\ Len(result) = 2

\* C10: with an asynchronous client get_posts searches nothing itself: it
\* returns the awaitable of get_posts_async, which issues every search, and
\* what the awaitable gives is the sequence, with the same links, that get_posts
\* gave a pool object of a synchronous client from the same pages.
C10_AsyncDelegation ==
    /\ (pool.client = "async" /\ pc # "idle") =>
          /\ delegated
          /\ pc = "awaitable" => requests = <<>>
          /\ \A i \in 1..Len(requests) : requests[i].by = "get_posts_async"
    /\ (pool.client = "async" /\ pc \in {"done", "raised"}
            /\ lastRun.client = "sync" /\ lastRun.pc = "done") =>
          /\ pc = "done"
          /\ ReturnedIds = lastRun.ids
          /\ ReturnedNext = lastRun.next
          /\ ReturnedPrevious = lastRun.previous

\* The awaitable gave pool [5, 3, 9] after a synchronous client had resolved it.
C10_Witness ==
    /\ pool.client = "async"
    /\ delegated
    /\ pc = "done"
    /\ lastRun.client = "sync"
    /\ lastRun.pc = "done"
    /\ ReturnedIds = <<5, 3, 9>>
    /\ Len(requests) = 2

----------------------------------------------------------------------------
(* Throttling *)

\* C11, as stated: no interval of one second holds more than 2 requests
\* issued by _call_api -- at every moment, at most CALLS requests of a client
\* class are younger than one period.
C11_AtMostTwoPerWindow ==
    \A c \in Clients : Len(issued[c]) <= CALLS

RateLimitFailure ==
    opResult.out.k = "raise" /\ opResult.out.cls = "RateLimitException"

Sleeping == thread.pc = "sleeping" /\ ~clients[thread.inst].closed

DispatchedAfterWait ==
    /\ thread.pc = "idle"
    /\ thread.waited
    /\ opResult.op = "call"
    /\ opResult.out.k = "return"
    /\ actor # NoInstance

\* C12: an exhausted budget makes the call wait, never fail: no
\* RateLimitException reaches the caller, and every call that sleeps in
\* sleep_and_retry (on a client whose session is open) is dispatched in the end.
C12_WaitsThenDispatches ==
    /\ [](~RateLimitFailure)
    /\ (Sleeping ~> DispatchedAfterWait)

C12_Witness == DispatchedAfterWait

\* C13, as stated: a step made on one client object changes neither the state
\* nor the throttling budget and waiting time of another client object.
C13_NoSharedState ==
    [][\A j \in Instances :
          (actor' # NoInstance /\ actor' # j) =>
              /\ clients'[j] = clients[j]
              /\ limiter'[clients[j].cls] = limiter[clients[j].cls]]_vars

\* C14, as stated: close() is offered by both clients and leaves the session
\* the client made closed.
C14_CloseReleases ==
    (opResult.op = "close" /\ actor # NoInstance /\ clients[actor].owns) =>
        (opResult.out.k = "return" /\ clients[actor].closed)

----------------------------------------------------------------------------
(* Entities *)

\* the post was built from a payload
FromPayload == post # NoEntity /\ post._original_data # Absent

\* C15: whatever is assigned to the typed fields of a post built from a
\* payload, and whatever is changed in place through them, _original_data
\* still has the value the payload had when the post was built.
C15_SnapshotUnchanged ==
    FromPayload => DeepValue(heap, post._original_data) = snapshot

\* the payload object itself was changed through a typed field of the post
C15_Witness ==
    /\ FromPayload
    /\ edits > 0
    /\ DeepValue(heap, json_data) # snapshot
    /\ post.tags # Get(heap, json_data, "tags")

ThreeRatings == {PyStr(<<"s">>), PyStr(<<"q">>), PyStr(<<"e">>)}

\* Post(json_data) was called with a non-empty payload
PostAttempted == construction # NoOutcome /\ snapshot # Absent
\* Tag(json_data) was called with a non-empty payload
TagAttempted == tag.out # NoOutcome /\ Truthy(tag.json_data)

WireRating == DictGet(snapshot, "rating")
WireCategory == DictGet(tag.json_data, "category")

IsValueError(out) == out.k = "raise" /\ out.cls = "ValueError"

\* Tag(json_data) fails unless the category is one of 0, 1, 3, 4, 5, 6, 7, 8,
\* and then the tag holds that member.
TagCategoryClosed ==
    TagAttempted =>
        IF WireCategory.t = "int" /\ WireCategory.v \in {0, 1, 3, 4, 5, 6, 7, 8}
        THEN /\ tag.out.k = "return"
             /\ tag.out.value.category = [t |-> "TagCategory", v |-> WireCategory.v]
        ELSE IsValueError(tag.out)

\* C16, as stated: Post(json_data) fails unless the rating is one of s, q, e,
\* Tag(json_data) fails unless the category is one of 0, 1, 3, 4, 5, 6, 7, 8;
\* an entity that was built holds the member for its wire value.
C16_ClosedEnumerations ==
    /\ PostAttempted =>
           IF WireRating \in ThreeRatings
           THEN /\ construction.k = "return"
                /\ construction.value.rating = [t |-> "Rating", v |-> WireRating]
           ELSE IsValueError(construction)
    /\ TagCategoryClosed

\* C16, amended: a rating that is absent or null is accepted too and gives
\* Rating.NONE; every other rating outside s, q, e fails; the categories are
\* as stated.
C16_RatingNoneAccepted ==
    /\ PostAttempted =>
           IF WireRating \in ThreeRatings \cup {None}
           THEN /\ construction.k = "return"
                /\ construction.value.rating = [t |-> "Rating", v |-> WireRating]
           ELSE IsValueError(construction)
    /\ TagCategoryClosed

\* a post built with Rating.NONE next to a tag refused for category 2
C16_Witness ==
    /\ PostAttempted
    /\ WireRating = None
    /\ construction.k = "return"
    /\ TagAttempted
    /\ WireCategory = PyInt(2)
    /\ IsValueError(tag.out)

----------------------------------------------------------------------------
(* The diff engine *)

BothLists == diffArgs.original.t = "list" /\ diffArgs.new.t = "list"

\* how often e occurs in the sequence l
Count(l, e) == Cardinality({i \in 1..Len(l) : l[i] = e})

\* C17: _diff_list(this, that) is `this` without the elements that occur in
\* `that`, the rest in the order of `this`; nothing of `that` is in it.
C17_ThisWithoutThat ==
    listOut # NoList =>
        /\ listOut.v = SelectSeq(diffArgs.original.v,
                                 LAMBDA e : e \notin Range(diffArgs.new.v))
        /\ Range(listOut.v) \cap Range(diffArgs.new.v) = {}

\* some elements were dropped and some kept
C17_Witness ==
    /\ listOut # NoList
    /\ listOut.v # <<>>
    /\ Len(listOut.v) < Len(diffArgs.original.v)

\* C18, as stated: an element that occurs m times in A and n times in B
\* occurs max(m - n, 0) times in _diff_list(A, B).
C18_MultisetDifference ==
    listOut # NoList =>
        \A e \in Words :
            Count(listOut.v, e) =
                Max(Count(diffArgs.original.v, e) - Count(diffArgs.new.v, e), 0)

\* C18, amended: an element that occurs m times in A occurs m times in
\* _diff_list(A, B) when B does not hold it and not at all when B holds it,
\* however often; the result has no more elements than A.
C18_AllOrNoOccurrence ==
    listOut # NoList =>
        /\ \A e \in Words :
              Count(listOut.v, e) =
                  IF Count(diffArgs.new.v, e) = 0
                  THEN Count(diffArgs.original.v, e) ELSE 0
        /\ Len(listOut.v) <= Len(diffArgs.original.v)

\* an element twice in A and once in B: the result holds it no more
C18_Witness ==
    /\ listOut # NoList
    /\ \E e \in Words :
          /\ Count(diffArgs.original.v, e) > Count(diffArgs.new.v, e)
          /\ Count(diffArgs.new.v, e) > 0
          /\ Count(listOut.v, e) = 0

SameShape == diffArgs.original.t = diffArgs.new.t

\* the words of the string a call returned; a call that raised reports none
Reported(out) == IF out.k = "return" THEN Range(Split(out.value)) ELSE {}

\* the tokens a call reports as added, and as removed (prefixed with -)
AddedIn(out) == {w \in Reported(out) : w.v[1] # "-"}
RemovedIn(out) == {PyStr(Tail(w.v)) : w \in {x \in Reported(out) : x.v[1] = "-"}}

\* C19, as stated: for two values of one shape, what
\* _generate_difference(x, y) reports as added is what
\* _generate_difference(y, x) reports as removed, and the other way round.
C19_SwapSymmetric ==
    (SameShape /\ diffOut # NoOutcome /\ diffBack # NoOutcome) =>
        /\ AddedIn(diffOut) = RemovedIn(diffBack)
        /\ RemovedIn(diffOut) = AddedIn(diffBack)

\* the set of tokens of a value, after flattening or tokenizing
TokensOf(x) ==
    CASE x.t = "str" -> Range(Split(x))
      [] x.t = "list" -> Range(x.v)
      [] x.t = "dict" -> Range(Flattened(x.v))

\* C20, as stated: _generate_difference gives "" whenever its two arguments
\* hold the same set of tokens, and so for _generate_difference(x, x).
C20_NoChangeIsEmpty ==
    (SameShape /\ diffOut # NoOutcome
       /\ TokensOf(diffArgs.original) = TokensOf(diffArgs.new)) =>
        diffOut = Return(PyStr(<<>>))

\* C21: _generate_difference raises ValueError, and returns no string,
\* whenever its two arguments are of different types (str against list, list
\* against dict, str against dict), whichever of the two comes first.
C21_MismatchIsValueError ==
    ~SameShape =>
        /\ diffOut # NoOutcome => (diffOut.k = "raise" /\ diffOut.cls = "ValueError")
        /\ diffBack # NoOutcome => (diffBack.k = "raise" /\ diffBack.cls = "ValueError")

\* a str against a list that is not empty has been rejected
C21_Witness ==
    /\ diffOut.k = "raise"
    /\ diffOut.cls = "ValueError"
    /\ diffArgs.original.t = "str"
    /\ diffArgs.new.t = "list"
    /\ diffArgs.new.v # <<>>

\* a dict against a str or a list has been rejected, both ways round
C21_WitnessMapping ==
    /\ diffOut.k = "raise"
    /\ diffOut.cls = "ValueError"
    /\ diffBack.k = "raise"
    /\ diffArgs.original.t = "dict"
    /\ diffArgs.new.t \in {"str", "list"}

\* the two lists of tags _generate_difference holds after its
\* transformation of str and dict arguments, when it gets that far
TagLists ==
    CASE diffArgs.original.t = "str" ->
           [original |-> Split(diffArgs.original), new |-> Split(diffArgs.new)]
      [] diffArgs.original.t = "list" ->
           [original |-> diffArgs.original.v, new |-> diffArgs.new.v]
      [] diffArgs.original.t = "dict" ->
           LET j == JoinedByOriginalKeys(diffArgs.original, diffArgs.new,
                                         Len(diffArgs.original.v))
           IN [original |-> j.joined_original, new |-> j.joined_new]

\* the tokens of `new` that `original` lacks, in the order of `new`, and the
\* tokens of `original` that `new` lacks, each with the dash before it
AddedTokens ==
    SelectSeq(TagLists.new, LAMBDA e : e \notin Range(TagLists.original))
RemovedTokens ==
    LET removed == SelectSeq(TagLists.original,
                             LAMBDA e : e \notin Range(TagLists.new))
    IN [i \in 1..Len(removed) |-> PyStr(<<"-">> \o removed[i].v)]

\* a text without leading or trailing whitespace and without two spaces
\* in a row
SingleSpaced(text) ==
    /\ text # <<>> => (text[1] # " " /\ text[Len(text)] # " ")
    /\ \A i \in 1..(Len(text) - 1) : ~(text[i] = " " /\ text[i + 1] = " ")

\* C22: the string _generate_difference returns is the added tokens in the
\* order of `new`, then the removed tokens each prefixed with -, all
\* separated by exactly one space, with no whitespace at either end; a
\* difference of removals only starts with the dash.
C22_E621Format ==
    (SameShape /\ diffOut.k = "return") =>
        /\ diffOut.value.t = "str"
        /\ Split(diffOut.value) = AddedTokens \o RemovedTokens
        /\ SingleSpaced(diffOut.value.v)
        /\ (AddedTokens = <<>> /\ RemovedTokens # <<>>) =>
              diffOut.value.v[1] = "-"

\* [a, b] against [b, c] gives "c -a"
C22_Witness ==
    /\ diffArgs.original = PyList(<<PyStr(<<"a">>), PyStr(<<"b">>)>>)
    /\ diffArgs.new = PyList(<<PyStr(<<"b">>), PyStr(<<"c">>)>>)
    /\ diffOut = Return(PyStr(<<"c", " ", "-", "a">>))

\* a difference of removals only
C22_WitnessRemovalOnly ==
    /\ diffOut.k = "return"
    /\ SameShape
    /\ AddedTokens = <<>>
    /\ Len(RemovedTokens) = 2
    /\ diffOut.value.v[1] = "-"

BothDicts == diffArgs.original.t = "dict" /\ diffArgs.new.t = "dict"

\* the keys of a mapping
KeysOf(d) == {d.v[i][1] : i \in 1..Len(d.v)}

\* the tokens a mapping lists under the keys in K
TokensUnder(d, K) ==
    UNION {Range(d.v[i][2].v) : i \in {n \in 1..Len(d.v) : d.v[n][1] \in K}}

\* C30: for two mappings _generate_difference flattens both over the keys
\* of `original` only: it reports as added only tokens that `new` lists
\* under a key of `original`, and it fails, reporting nothing, when `new`
\* lacks a key of `original`.
C30_OriginalKeysOnly ==
    (BothDicts /\ diffOut # NoOutcome) =>
        IF KeysOf(diffArgs.original) \subseteq KeysOf(diffArgs.new)
        THEN /\ diffOut.k = "return"
             /\ AddedIn(diffOut) =
                    TokensUnder(diffArgs.new, KeysOf(diffArgs.original))
                        \ TokensUnder(diffArgs.original, KeysOf(diffArgs.original))
             /\ RemovedIn(diffOut) =
                    TokensUnder(diffArgs.original, KeysOf(diffArgs.original))
                        \ TokensUnder(diffArgs.new, KeysOf(diffArgs.original))
        ELSE diffOut.k = "raise" /\ diffOut.cls = "KeyError"

\* a token under a key that only `new` has is in no way reported, and the
\* same pair the other way round fails
C30_Witness ==
    /\ BothDicts
    /\ diffOut = Return(PyStr(<<>>))
    /\ diffBack.k = "raise"
    /\ TokensUnder(diffArgs.new, KeysOf(diffArgs.new) \ KeysOf(diffArgs.original))
           \ TokensOf(diffArgs.original) # {}

----------------------------------------------------------------------------
(* The query string and the authentication of a request *)

\* the pieces of a text between the occurrences of the token sep
RECURSIVE Pieces(_, _, _)
Pieces(text, sep, piece) ==
    IF text = <<>> THEN <<piece>>
    ELSE IF text[1] = sep THEN <<piece>> \o Pieces(Tail(text), sep, <<>>)
    ELSE Pieces(Tail(text), sep, Append(piece, text[1]))

\* the text after the first occurrence of the token sep, and before it
After(text, sep) ==
    LET i == CHOOSE k \in 1..Len(text) :
                 text[k] = sep /\ \A j \in 1..(k - 1) : text[j] # sep
    IN SubSeq(text, i + 1, Len(text))
Before(text, sep) ==
    LET i == CHOOSE k \in 1..Len(text) :
                 text[k] = sep /\ \A j \in 1..(k - 1) : text[j] # sep
    IN SubSeq(text, 1, i - 1)

\* the name=value pairs of the query string of a url, as they are on the wire
SentParams(url) ==
    LET query == After(url, "?")
        pairs == IF query = <<>> THEN <<>> ELSE Pieces(query, "&", <<>>)
    IN [i \in 1..Len(pairs) |-> <<Before(pairs[i], "="), After(pairs[i], "=")>>]

\* the values the claim names as left out
Falsy == {None, PyStr(<<>>), PyInt(0), PyBool(FALSE)}

\* how often a parameter of that name is in the query string
TimesSent(url, key) ==
    LET sent == SentParams(url)
    IN Cardinality({i \in 1..Len(sent) : sent[i][1] = QuotePlus(key)})

\* the query string holds name=value
Sent(url, key, value) ==
    LET sent == SentParams(url)
    IN \E i \in 1..Len(sent) : sent[i] = <<QuotePlus(key), QuotePlus(value)>>

\* C23: the query string of the request of a search holds exactly the
\* keyword arguments of _call_api whose value is truthy, each once and
\* with its value: one that is None, "", 0 or False is not in it.
C23_ExactlyTruthySent ==
    search.op # "" =>
        /\ \A i \in 1..Len(search.queries) :
              LET key == search.queries[i][1]
                  value == search.queries[i][2]
              IN IF value \in Falsy
                 THEN TimesSent(search.req.url, key) = 0
                 ELSE /\ TimesSent(search.req.url, key) = 1
                      /\ Sent(search.req.url, key, StrOf(value).v)
        /\ Len(SentParams(search.req.url)) =
              Cardinality({i \in 1..Len(search.queries) :
                             search.queries[i][2] \notin Falsy})

\* posts(tags, limit=0, page=False): the tags alone are sent
C23_Witness ==
    /\ search.op = "posts"
    /\ search.args.limit = PyInt(0)
    /\ search.args.page = PyBool(FALSE)
    /\ SentParams(search.req.url) = << <<(<<"tags">>), <<"wolf", "+", "male">> >> >>

\* the authentication a request carries for a credentials pair
AuthOf(pair) == IF pair = <<PyStr(<<>>), PyStr(<<>>)>> THEN None ELSE PyList(pair)

\* C24: a request of either client carries Basic authentication built from
\* the pair login() was last given, and none when that pair is ("", "") or
\* login() was never called; login() itself sends no request.
C24_AuthFollowsLogin ==
    [][/\ syncCall'.n # syncCall.n =>
             (syncCall'.req.auth = AuthOf(login) /\ login' = login)
       /\ asyncCall'.n # asyncCall.n =>
             (asyncCall'.req.auth = AuthOf(login) /\ login' = login)
       /\ login' # login => (syncCall' = syncCall /\ asyncCall' = asyncCall)]_vars

\* requests went out with two different pairs and login("", "") was called
\* after them
C24_Witness ==
    /\ login = NoLogin
    /\ syncCall.n > 0
    /\ asyncCall.n > 0
    /\ syncCall.req.auth = PyList(<<PyStr(<<"user">>), PyStr(<<"key">>)>>)
    /\ asyncCall.req.auth = PyList(<<PyStr(<<>>), PyStr(<<"key2">>)>>)

\* what the query string has to hold for a flag given as b
FlagSent(url, name, b) ==
    LET key == <<"search", "[", name, "]">>
    IN CASE b = PyBool(TRUE) ->
              TimesSent(url, key) = 1 /\ Sent(url, key, <<"true">>)
         [] b = PyBool(FALSE) ->
              TimesSent(url, key) = 1 /\ Sent(url, key, <<"false">>)
         [] b = None -> TimesSent(url, key) = 0

\* the request the last pool search sent
PoolRequest == IF poolSearch.args.client = "sync" THEN syncCall.req ELSE asyncCall.req

\* C25: notes() sends is_active, and pools() sends is_active and
\* is_deleted, as search[...]=true for True and search[...]=false for
\* False, and leaves a flag that is None out of the query string.
C25_BooleansLowercased ==
    [][/\ (search'.calls # search.calls /\ search'.op = "notes") =>
             FlagSent(search'.req.url, "is_active", search.args.is_active)
       /\ poolSearch'.calls # poolSearch.calls =>
             /\ FlagSent(PoolRequest'.url, "is_active", poolSearch.args.is_active)
             /\ FlagSent(PoolRequest'.url, "is_deleted", poolSearch.args.is_deleted)]_vars

\* notes(is_active=False) sent search[is_active]=false, and the pool search
\* sent is_deleted=false
C25_Witness ==
    /\ search.op = "notes"
    /\ search.args.is_active = PyBool(FALSE)
    /\ Sent(search.req.url, <<"search", "[", "is_active", "]">>, <<"false">>)
    /\ poolSearch.calls > 0
    /\ poolSearch.args.is_deleted = PyBool(FALSE)
    /\ poolSearch.out.k = "return"

\* C26, as stated: flags(..., limit=n) with n > 0 sends a request whose
\* query string holds limit=n.
C26_FlagsLimitSent ==
    (search.op = "flags" /\ search.args.limit.t = "int" /\ search.args.limit.v > 0) =>
        Sent(search.req.url, <<"limit">>, StrOf(search.args.limit).v)

----------------------------------------------------------------------------
(* The actions of a post *)

\* the post has no payload of the service behind it
NoOrigin == post # NoEntity /\ post._original_data = Absent

\* C27, as stated: favorite, unfavorite and update on a Post that was not
\* built from a payload raise UserError and send no request.
C27_NoOriginIsUserError ==
    (NoOrigin /\ postAction.op # "") =>
        /\ postAction.out.k = "raise"
        /\ postAction.out.cls = "UserError"
        /\ syncCall.n = 0

\* the part of C27 that holds: no request is sent for such a post
C27_NoOriginNoRequest ==
    NoOrigin => syncCall.n = 0

----------------------------------------------------------------------------
(* The end of a resolution *)

\* the resolution is over: get_posts returned or raised
Ended == pc \in {"done", "raised"}

\* C28, as stated: the paging loop of get_posts / get_posts_async ends
\* after finitely many searches, whatever the pages hold.
C28_ResolutionTerminates == (pc = "waiting") ~> Ended

\* some id of post_ids has no post among the accumulated results
SomeIdMissing == ~(Range(pool.post_ids) \subseteq Range(ResultIds))

\* C29: when the paging loop is left and some id of post_ids has no post
\* among the accumulated results, the resolution raises and sets no next or
\* previous; whenever it returns, it returns len(post_ids) posts and the
\* i-th has the id post_ids[i].
C29_NeverPartial ==
    /\ (Sorted /\ SomeIdMissing) =>
          /\ pc = "raised"
          /\ raised.k = "raise"
          /\ returned = <<>>
          /\ links = NoLinks
    /\ pc = "done" =>
          /\ ~SomeIdMissing
          /\ Len(returned) = Len(pool.post_ids)
          /\ \A i \in 1..Len(returned) : result[returned[i]].id = pool.post_ids[i]

\* the pages held post 3 twice and never post 5: the resolution of pool
\* [3, 5] raised
C29_Witness ==
    /\ pc = "raised"
    /\ raised.cls \in {"StopIteration", "RuntimeError"}
    /\ pool.post_ids = <<3, 5>>
    /\ ResultIds = <<3, 3>>
    /\ returned = <<>>

====
